---- MODULE Spec2Model ----
(***************************************************************************)
(* Model of nwb_docutils/doctools/rstdoc.py: the RSTDocument text buffer,  *)
(* the RSTTable table buffer and its renderer, and the recursive tree      *)
(* walkers of SpecToRST.                                                   *)
(*                                                                         *)
(* Text is a sequence of one-character strings, so that len(), split(),    *)
(* concatenation and prefixes are computed as Python computes them.        *)
(* A Python value that may be a str or None is a record [k, s]: k = "str"  *)
(* with its characters s, or k = "none".                                   *)
(***************************************************************************)
EXTENDS Integers, Sequences, FiniteSets, TLC

VARIABLES
    cols,       \* RSTTable.__cols: the column labels
    table,      \* RSTTable.__table: the rows, each a sequence of values
    document,   \* RSTDocument.document of the document at hand
    exc,        \* the exception the last operation raised, or "none"
    last,       \* the last operation and its arguments: [op, arg]
    stack,      \* the call stack of a tree walker: the frames of the calls that run
    spec_rows,  \* the rows of the table render_spec_table fills: [name, type, depth, spec]
    events,     \* what render_group_spec put into its document, in order
    calls,      \* the calls the running walker made, its first included
    desc_doc,   \* RSTDocument.document of the document of descriptions
    src_doc,    \* RSTDocument.document of the document of sources
    files       \* the files written: a set of [name, text]

walk == <<stack, spec_rows, events, calls>>

\* The documents and files of render_namespace.
outputs == <<desc_doc, src_doc, files>>

vars ==
    <<cols, table, document, exc, last, stack, spec_rows, events, calls,
      desc_doc, src_doc, files>>

\* ------------------------------------------------------------------ bounds

\* Rows a table holds at most.
MaxRows == 2

\* The document machine starts an operation only on a document of at most
\* this many characters.
MaxDocLen == 2

\* ------------------------------------------------------------- Python values

NL == "\n"

PyNone == [k |-> "none", s |-> <<>>]

Str(chars) == [k |-> "str", s |-> chars]

IsStr(v) == v.k = "str"

S_NoneStr == <<"N", "o", "n", "e">>

\* str(v): the text itself, or "None" for None.
PyStr(v) == IF v.k = "none" THEN S_NoneStr ELSE v.s

\* Truthiness of a str-or-None value: None and '' are false.
Truthy(v) == v.k = "str" /\ Len(v.s) > 0

Max(a, b) == IF a >= b THEN a ELSE b

Min(a, b) == IF a <= b THEN a ELSE b

\* n * c for a one-character string c (empty for n <= 0).
Repeat(c, n) == [i \in 1..n |-> c]

\* s.split(sep) for a one-character sep, as the sequence of the pieces:
\* one piece more than s has separators.
Split(s, sep) ==
    LET P == {i \in 1..Len(s) : s[i] = sep}
        n == Cardinality(P)
        pos(k) == IF k = 0 THEN 0
                  ELSE IF k = n + 1 THEN Len(s) + 1
                  ELSE CHOOSE p \in P : Cardinality({q \in P : q <= p}) = k
    IN  [k \in 1..(n + 1) |-> SubSeq(s, pos(k - 1) + 1, pos(k) - 1)]

RECURSIVE MaxOf(_)
\* max() of a non-empty sequence of integers.
MaxOf(q) == IF Len(q) = 1 THEN q[1] ELSE Max(q[1], MaxOf(Tail(q)))

RECURSIVE MinOf(_)
MinOf(q) == IF Len(q) = 1 THEN q[1] ELSE Min(q[1], MinOf(Tail(q)))

RECURSIVE Concat(_)
\* The concatenation of a sequence of texts.
Concat(q) == IF Len(q) = 0 THEN <<>> ELSE q[1] \o Concat(Tail(q))

IsPrefix(p, s) == Len(p) <= Len(s) /\ SubSeq(s, 1, Len(p)) = p

\* ------------------------------------------------------------- RSTDocument

\* RSTDocument.__init__: the empty document.
RSTDocument_init == <<>>

\* A buffer that is rewritten instead of appended to.
add_text_overwrite(doc, text) == text

\* RSTDocument.add_text
add_text(doc, text) == doc \o text

S_label_open == <<".", ".", " ", "_">>

\* RSTDocument.add_label
add_label(doc, label) ==
    add_text(add_text(doc, S_label_open \o label \o <<":">>), <<NL, NL>>)

\* ---------------------------------------------------------------- RSTTable

\* RSTTable.__init__ with a list of column labels.
RSTTable_init(labels) == labels

\* RSTTable.__init__ with an int: that many empty labels.
RSTTable_init_int(n) == [i \in 1..n |-> Str(<<>>)]

\* RSTTable.num_rows
num_rows(t) == Len(t)

\* RSTTable.num_cols
num_cols(c) == Len(c)

\* RSTTable.set_cell, col and row counted from 0 as in the source:
\* the outcome [exc, table].
set_cell(c, t, row, col, text) ==
    IF col >= Len(c) THEN [exc |-> "ValueError", table |-> t]
    ELSE IF row >= Len(t) THEN [exc |-> "ValueError", table |-> t]
    ELSE IF col >= Len(t[row + 1]) THEN [exc |-> "IndexError", table |-> t]
    ELSE [exc |-> "none",
          table |-> [t EXCEPT ![row + 1] = [@ EXCEPT ![col + 1] = text]]]

\* A set_col that appends the label when the column does not exist.
set_col_grow(c, col, text) ==
    IF col >= Len(c) THEN [exc |-> "none", cols |-> Append(c, text)]
    ELSE [exc |-> "none", cols |-> [c EXCEPT ![col + 1] = text]]

\* RSTTable.set_col: the outcome [exc, cols].
set_col(c, col, text) ==
    IF col >= Len(c) THEN [exc |-> "ValueError", cols |-> c]
    ELSE [exc |-> "none", cols |-> [c EXCEPT ![col + 1] = text]]

\* The replacement loop of add_row: every None of the row becomes replace_none.
ReplaceNone(row, replace_none) ==
    [i \in 1..Len(row) |-> IF row[i].k = "none" THEN replace_none ELSE row[i]]

\* The guard of the replacement in add_row: "if replace_none:".
add_row_replaces(replace_none) == Truthy(replace_none)

\* add_row's row_vals for a row_values that is a list: the list itself.
add_row_values(c, row_values) == row_values.v

\* RSTTable.add_row. row_values is [isNone, v]: None, or the list v.
\* The outcome [exc, table].
add_row(c, t, row_values, replace_none, convert_to_str) ==
    LET row_vals == IF row_values.isNone
                    THEN [i \in 1..Len(c) |-> Str(<<>>)]
                    ELSE add_row_values(c, row_values)
    IN  IF add_row_replaces(replace_none) /\ row_values.isNone
        THEN [exc |-> "TypeError", table |-> t]   \* enumerate(None)
        ELSE LET replaced == IF add_row_replaces(replace_none)
                             THEN ReplaceNone(row_vals, replace_none)
                             ELSE row_vals
                 converted == IF convert_to_str
                              THEN [i \in 1..Len(replaced) |-> Str(PyStr(replaced[i]))]
                              ELSE replaced
             IN  [exc |-> "none", table |-> Append(t, converted)]

\* RSTTable.table_row_divider
table_row_divider(col_widths, style) ==
    <<" ", " ", " ", " ">>
    \o Concat([i \in 1..Len(col_widths) |-> <<"+">> \o Repeat(style, col_widths[i] + 2)])
    \o <<"+", NL>>

\* A cell padded one space short.
normalize_cell_short(cell, col_width) ==
    <<" ">> \o cell \o Repeat(" ", col_width - Len(cell))

\* RSTTable.normalize_cell
normalize_cell(cell, col_width) ==
    <<" ">> \o cell \o Repeat(" ", col_width - Len(cell) + 1)

\* The cell text render_row puts on line l (from 0) of a cell split into lines.
row_cell_line(lines, l) == IF Len(lines) > l THEN lines[l + 1] ELSE <<>>

\* The number of lines of a row that counts only its first cell.
row_num_lines_first(row_lines) == Len(row_lines[1])

\* render_row's num_lines: the most lines any cell of the row has.
row_num_lines(row_lines) == MaxOf([i \in 1..Len(row_lines) |-> Len(row_lines[i])])

S_row_open == <<" ", " ", " ", " ", "|">>

\* RSTTable.render_row: the outcome [exc, text].
\* max() of an empty row raises ValueError; col_widths[ri] raises IndexError
\* on the first line when the row has more cells than col_widths.
render_row(col_widths, row, newline) ==
    LET row_lines == [i \in 1..Len(row) |-> Split(row[i].s, newline)]
    IN  IF \E i \in 1..Len(row) : ~IsStr(row[i])
        THEN [exc |-> "AttributeError", text |-> <<>>]   \* None has no split
        ELSE IF Len(row) = 0 THEN [exc |-> "ValueError", text |-> <<>>]
        ELSE IF Len(row) > Len(col_widths) THEN [exc |-> "IndexError", text |-> <<>>]
        ELSE LET num_lines == row_num_lines(row_lines)
                 line(l) == S_row_open
                            \o Concat([ri \in 1..Len(row) |->
                                   normalize_cell(row_cell_line(row_lines[ri], l),
                                                  col_widths[ri]) \o <<"|">>])
                            \o <<newline>>
             IN  [exc |-> "none",
                  text |-> Concat([l \in 1..num_lines |-> line(l - 1)])]

\* RSTTable.cell_len
cell_len(cell, newline) ==
    LET parts == Split(cell, newline)
    IN  MaxOf([i \in 1..Len(parts) |-> Len(parts[i])])

\* The col_widths of render: zip(*rows) stops at the shortest row, and each
\* width is the longest cell line of the column plus 2. rows is the header
\* followed by the data rows, all cells strings.
render_col_widths(rows, newline) ==
    LET n == MinOf([r \in 1..Len(rows) |-> Len(rows[r])])
    IN  [i \in 1..n |->
            MaxOf([r \in 1..Len(rows) |-> cell_len(rows[r][i].s, newline)]) + 2]

RECURSIVE render_rows(_, _, _)
\* The loop of render over the data rows: each row, then a '-' divider.
\* A row that raises ends the loop with what was appended so far.
render_rows(doc, col_widths, rows) ==
    IF Len(rows) = 0 THEN [exc |-> "none", document |-> doc]
    ELSE LET r == render_row(col_widths, rows[1], NL)
         IN  IF r.exc # "none" THEN [exc |-> r.exc, document |-> doc]
             ELSE render_rows(
                     add_text(add_text(doc, r.text), table_row_divider(col_widths, "-")),
                     col_widths, Tail(rows))

RECURSIVE IntToStr(_)
\* '%i' % n for a natural number n: its decimal digits.
IntToStr(n) ==
    LET digit(d) == <<"0", "1", "2", "3", "4", "5", "6", "7", "8", "9">>[d + 1]
    IN  IF n < 10 THEN <<digit(n)>> ELSE IntToStr(n \div 10) \o <<digit(n % 10)>>

S_table == <<".", ".", " ", "t", "a", "b", "l", "e", ":", ":">>

S_widths == <<" ", " ", " ", " ", ":", "w", "i", "d", "t", "h", "s", ":">>

S_class == <<" ", " ", " ", " ", ":", "c", "l", "a", "s", "s", ":", " ">>

S_longtable == <<"l", "o", "n", "g", "t", "a", "b", "l", "e">>

S_tabularcolumns ==
    <<".", ".", " ", "t", "a", "b", "u", "l", "a", "r", "c", "o", "l", "u", "m", "n", "s", ":", ":", " ">>

\* The text render appends before the grid: a blank line, the optional
\* tabularcolumns directive and label, the table directive with its options.
render_directive(doc, o) ==
    LET d1 == add_text(doc, <<NL>>)
        d2 == IF Truthy(o.latex_tablecolumns)
              THEN add_text(d1, S_tabularcolumns \o o.latex_tablecolumns.s \o <<NL>>)
              ELSE d1
        d3 == IF o.table_ref.k # "none" THEN add_label(d2, o.table_ref.s) ELSE d2
        d4 == add_text(d3, S_table)
        d5 == IF Truthy(o.title) THEN add_text(d4, <<" ">> \o o.title.s) ELSE d4
        d6 == add_text(d5, <<NL>>)
        d7 == IF Len(o.widths) > 0
              THEN add_text(
                     add_text(d6, S_widths
                        \o Concat([i \in 1..Len(o.widths) |-> <<" ">> \o IntToStr(o.widths[i])])),
                     <<NL>>)
              ELSE d6
        d8 == IF o.table_class.k # "none"
              THEN add_text(d7, S_class \o o.table_class.s \o <<NL>>)
              ELSE d7
    IN  add_text(d8, <<NL>>)

\* The first test of render: an empty table is skipped when ignore_empty.
render_skips(t, ignore_empty) == Len(t) = 0 /\ ignore_empty

\* RSTTable.render. rst_doc is [isNone, document]; o holds the other
\* arguments. The outcome [exc, ret, document]: ret says whether the
\* document returned is the given one or a new one, document is the text
\* of the document given or created (a raise before a document exists
\* leaves the given text).
render(c, t, rst_doc, o) ==
    LET rows == <<c>> \o t
        any_item == \E r \in 1..Len(rows) : Len(rows[r]) > 0
        bad_item == \E r \in 1..Len(rows) : \E i \in 1..Len(rows[r]) : ~IsStr(rows[r][i])
        given == IF rst_doc.isNone THEN RSTDocument_init ELSE rst_doc.document
        ret == IF rst_doc.isNone THEN "new" ELSE "given"
    IN  IF render_skips(t, o.ignore_empty)
        THEN [exc |-> "none", ret |-> ret, document |-> given]
        ELSE IF any_item /\ (rst_doc.isNone \/ bad_item)
        THEN \* rst_doc.newline of None, or cell.split of a cell that is no str
             [exc |-> "AttributeError", ret |-> "raise", document |-> given]
        ELSE LET col_widths == render_col_widths(rows, NL)
                 d0 == render_directive(given, o)
                 d1 == add_text(d0, table_row_divider(col_widths, "-"))
                 hdr == render_row(col_widths, c, NL)
             IN  IF hdr.exc # "none"
                 THEN [exc |-> hdr.exc, ret |-> "raise", document |-> d1]
                 ELSE LET d2 == add_text(add_text(d1, hdr.text),
                                         table_row_divider(col_widths, "="))
                          body == render_rows(d2, col_widths, t)
                      IN  IF body.exc # "none"
                          THEN [exc |-> body.exc, ret |-> "raise", document |-> body.document]
                          ELSE [exc |-> "none", ret |-> ret,
                                document |-> add_text(add_text(body.document, <<NL>>), <<NL>>)]

\* ------------------------------------------------------------ inputs

T_a == <<"a">>

T_abc_d == <<"a", "b", "c", NL, "d">>

T_xy == <<"x", "y">>

T_q_rs == <<"q", NL, "r", "s">>

\* cols of the constructor: lists of labels, or an int.
ColsLists == {<<>>, <<Str(T_a)>>, <<Str(T_xy), Str(T_q_rs)>>}

ColsInts == {0, 1}

NoRow == [isNone |-> TRUE, v |-> <<>>]

Row(v) == [isNone |-> FALSE, v |-> v]

\* row_values of add_row: None, and lists of 0 to 2 values, with None and
\* with multi-line text: shorter, as long as and longer than the header.
RowInputs ==
    {NoRow, Row(<<>>), Row(<<Str(T_a)>>), Row(<<Str(T_abc_d), PyNone>>)}

ReplaceInputs == {PyNone, Str(<<>>), Str(<<"-">>)}

CellTexts == {Str(T_q_rs)}

Opts(title, table_class, widths, ignore_empty, table_ref, latex_tablecolumns) ==
    [title |-> title, table_class |-> table_class, widths |-> widths,
     ignore_empty |-> ignore_empty, table_ref |-> table_ref,
     latex_tablecolumns |-> latex_tablecolumns]

\* Arguments of render: the defaults, and every optional argument given.
RenderOpts ==
    {Opts(PyNone, Str(S_longtable), <<>>, ie, PyNone, PyNone) : ie \in BOOLEAN}
    \cup {Opts(Str(T_a), PyNone, <<1, 12>>, ie, Str(T_xy), Str(<<"|", "l", "|">>)) : ie \in BOOLEAN}

NoArg == [none |-> TRUE]

\* ------------------------------------------------------- the table machine

\* A table of two columns was constructed, and a document.
Init ==
    /\ cols = RSTTable_init(<<Str(T_xy), Str(T_q_rs)>>)
    /\ table = <<>>
    /\ document = RSTDocument_init
    /\ exc = "none"
    /\ last = [op |-> "init", arg |-> [n |-> Len(cols)]]
    /\ stack = <<>> /\ spec_rows = <<>> /\ events = <<>> /\ calls = 0
    /\ desc_doc = RSTDocument_init /\ src_doc = RSTDocument_init /\ files = {}

\* The documents an operation of the table machine starts from: a new one,
\* or one that holds text already.
StartDocs == {RSTDocument_init, add_text(RSTDocument_init, T_a)}

Short == document \in StartDocs

\* A new RSTTable replaces the one at hand.
NewTable ==
    /\ Short
    /\ \/ \E l \in ColsLists :
            /\ cols' = RSTTable_init(l)
            /\ last' = [op |-> "init", arg |-> [n |-> Len(l)]]
       \/ \E n \in ColsInts :
            /\ cols' = RSTTable_init_int(n)
            /\ last' = [op |-> "init", arg |-> [n |-> n]]
    /\ table' = <<>>
    /\ exc' = "none"
    /\ UNCHANGED document
    /\ UNCHANGED <<walk, outputs>>

\* A new RSTDocument replaces the one at hand.
NewDocument ==
    /\ document' = RSTDocument_init
    /\ exc' = "none"
    /\ last' = [op |-> "new_document", arg |-> NoArg]
    /\ UNCHANGED <<cols, table>>
    /\ UNCHANGED <<walk, outputs>>

\* RSTDocument.add_text of one character on the document at hand.
AddText ==
    /\ document = RSTDocument_init
    /\ document' = add_text(document, T_a)
    /\ exc' = "none"
    /\ last' = [op |-> "add_text", arg |-> NoArg]
    /\ UNCHANGED <<cols, table>>
    /\ UNCHANGED <<walk, outputs>>

AddRow ==
    /\ Short
    /\ Len(table) < MaxRows
    /\ \E rv \in RowInputs, rn \in ReplaceInputs, cs \in BOOLEAN :
         LET r == add_row(cols, table, rv, rn, cs)
         IN  /\ table' = r.table
             /\ exc' = r.exc
             /\ last' = [op |-> "add_row",
                         arg |-> [row_values |-> rv, replace_none |-> rn, convert_to_str |-> cs]]
    /\ UNCHANGED <<cols, document>>
    /\ UNCHANGED <<walk, outputs>>

SetCell ==
    /\ Short
    /\ \E row \in 0..MaxRows, col \in 0..2, text \in CellTexts :
         LET r == set_cell(cols, table, row, col, text)
         IN  /\ table' = r.table
             /\ exc' = r.exc
             /\ last' = [op |-> "set_cell", arg |-> NoArg]
    /\ UNCHANGED <<cols, document>>
    /\ UNCHANGED <<walk, outputs>>

SetCol ==
    /\ Short
    /\ \E col \in 0..2, text \in CellTexts :
         LET r == set_col(cols, col, text)
         IN  /\ cols' = r.cols
             /\ exc' = r.exc
             /\ last' = [op |-> "set_col", arg |-> NoArg]
    /\ UNCHANGED <<table, document>>
    /\ UNCHANGED <<walk, outputs>>

\* RSTTable.render into the document at hand, or with rst_doc=None. The
\* document returned becomes the document at hand; a raise with
\* rst_doc=None leaves the document at hand as it was.
Render ==
    /\ Short
    /\ \E none \in BOOLEAN, o \in RenderOpts :
         LET r == render(cols, table, [isNone |-> none, document |-> document], o)
         IN  /\ document' = IF none /\ r.exc # "none" THEN document ELSE r.document
             /\ exc' = r.exc
             /\ last' = [op |-> "render",
                         arg |-> [rst_doc_none |-> none, ignore_empty |-> o.ignore_empty,
                                  ret |-> r.ret, before |-> document]]
    /\ UNCHANGED <<cols, table>>
    /\ UNCHANGED <<walk, outputs>>

Next == AddText \/ AddRow \/ SetCell \/ SetCol \/ Render \/ NewDocument \/ NewTable

Spec == Init /\ [][Next]_vars

\* ------------------------------------------------ reading rendered text

\* The text an operation appended to a document that held before.
Appended(before, doc) == SubSeq(doc, Len(before) + 1, Len(doc))

Lines(text) == Split(text, NL)

\* A line of the grid of a table: the indent, then '+' (a divider) or '|'
\* (a line of a row).
IsGridLine(l) == Len(l) >= 5 /\ SubSeq(l, 1, 4) = <<" ", " ", " ", " ">> /\ l[5] \in {"+", "|"}

IsDividerLine(l) == IsGridLine(l) /\ l[5] = "+"

IsRowLine(l) == IsGridLine(l) /\ l[5] = "|"

GridLines(text) == SelectSeq(Lines(text), IsGridLine)

\* The pieces of a grid line between its separators sep ('+' or '|').
Segments(l, sep) ==
    LET parts == Split(SubSeq(l, 5, Len(l)), sep)
    IN  SubSeq(parts, 2, Len(parts) - 1)

OnlyChar(t, c) == \A i \in 1..Len(t) : t[i] = c

CountChar(t, c) == Cardinality({i \in 1..Len(t) : t[i] = c})

\* The grid lines of the last render into the document at hand.
LastGrid == GridLines(Appended(last.arg.before, document))

RenderedInto == last.op = "render" /\ ~last.arg.rst_doc_none

\* ------------------------------------------------------------------ claims

\* C1: after any sequence of add_row, set_cell and set_col, every row of the
\* table has exactly num_cols() cells.
C1_RowsMatchHeader == \A r \in 1..Len(table) : Len(table[r]) = num_cols(cols)

\* C3: num_cols() is the number of labels (or the int) given to the
\* constructor, and no add_row, set_cell, set_col or render changes it;
\* set_col changes at most the label of the one existing column it names.
C3_ColsFixed ==
    /\ [](last.op = "init" => num_cols(cols) = last.arg.n)
    /\ [][/\ last'.op # "init" => num_cols(cols') = num_cols(cols)
          /\ last'.op = "set_col" =>
                Cardinality({i \in 1..Len(cols) : cols'[i] # cols[i]}) <= 1
          /\ last'.op \in {"add_row", "set_cell", "render"} => cols' = cols]_vars

\* C3's case: a label was replaced in a table that holds rows.
C3_Witness ==
    /\ last.op = "set_col" /\ exc = "none"
    /\ Len(table) >= 1 /\ Len(cols) >= 1
    /\ \E i \in 1..Len(cols) : cols[i] = Str(T_q_rs)

\* C4: render into an existing document never raises.
C4_RenderNeverRaises == RenderedInto => exc = "none"

\* C6: render with rst_doc=None returns a new document without raising,
\* for an empty table and for a table with rows.
C6_RenderNoneMakesDocument ==
    (last.op = "render" /\ last.arg.rst_doc_none) =>
        (exc = "none" /\ last.arg.ret = "new")

\* C7: render of a table without data rows: with ignore_empty it leaves the
\* given document as it was and returns it; without, it appends the table
\* directive and a grid that is a '-' divider, the header row and a '='
\* divider.
C7_EmptyTable ==
    (RenderedInto /\ Len(table) = 0) =>
        IF last.arg.ignore_empty
        THEN exc = "none" /\ document = last.arg.before /\ last.arg.ret = "given"
        ELSE /\ exc = "none" /\ last.arg.ret = "given"
             /\ IsPrefix(last.arg.before, document)
             /\ \E i \in 1..Len(Lines(Appended(last.arg.before, document))) :
                    IsPrefix(S_table, Lines(Appended(last.arg.before, document))[i])
             /\ LET g == LastGrid
                IN  /\ Len(g) >= 3
                    /\ IsDividerLine(g[1]) /\ OnlyChar(Concat(Segments(g[1], "+")), "-")
                    /\ IsDividerLine(g[Len(g)])
                    /\ OnlyChar(Concat(Segments(g[Len(g)], "+")), "=")
                    /\ \A k \in 2..(Len(g) - 1) : IsRowLine(g[k])
                    /\ Len(g) - 2 = MaxOf([i \in 1..Len(cols) |->
                                              CountChar(cols[i].s, NL) + 1])

\* C7 without the table of no columns, whose header row cannot be rendered.
C7_EmptyTableWithColumns == Len(cols) >= 1 => C7_EmptyTable

\* The positions of the separators of grid line l.
SepPositions(l, sep) == {p \in 5..Len(l) : l[p] = sep}

\* C8: in the text render appends, all lines of the grid (dividers, header
\* and row lines) have the same length, every row line has its '|' where the
\* dividers have their '+', and the width of each column of the grid is at
\* least the longest line of every cell of that column, header included.
C8_Aligned ==
    RenderedInto =>
        LET g == LastGrid
            rows == <<cols>> \o table
        IN  /\ \A i, j \in 1..Len(g) : Len(g[i]) = Len(g[j])
            /\ \A i \in 1..Len(g) :
                  IsRowLine(g[i]) => SepPositions(g[i], "|") = SepPositions(g[1], "+")
            /\ Len(g) >= 1 =>
                 /\ IsDividerLine(g[1])
                 /\ LET w == Segments(g[1], "+")
                    IN  \A r \in 1..Len(rows) : \A c \in 1..Len(rows[r]) :
                          c <= Len(w) =>
                             \A k \in 1..Len(Lines(rows[r][c].s)) :
                                 Len(Lines(rows[r][c].s)[k]) <= Len(w[c])

\* C8's case: a table of two rows with multi-line cells was rendered whole.
C8_Witness ==
    /\ RenderedInto /\ exc = "none"
    /\ Len(cols) = 2 /\ Len(table) = 2
    /\ \E r \in 1..2 : CountChar(table[r][1].s, NL) > 0
    /\ Len(LastGrid) >= 7

\* The rendered rows of the last render: the runs of row lines of the grid,
\* in order, each run ended by a divider.
RECURSIVE RowRuns(_, _)
RowRuns(g, cur) ==
    IF Len(g) = 0 THEN (IF Len(cur) = 0 THEN <<>> ELSE <<cur>>)
    ELSE IF IsDividerLine(Head(g))
         THEN (IF Len(cur) = 0 THEN <<>> ELSE <<cur>>) \o RowRuns(Tail(g), <<>>)
         ELSE RowRuns(Tail(g), Append(cur, Head(g)))

\* C9: render_row emits for a row as many lines as the cell with the most
\* newline-separated lines has; each line holds one cell per column, and a
\* cell with fewer lines is blank on the remaining lines.
C9_MultiLineRows ==
    (RenderedInto /\ exc = "none" /\ ~(Len(table) = 0 /\ last.arg.ignore_empty)) =>
        LET runs == RowRuns(LastGrid, <<>>)
            rows == <<cols>> \o table
        IN  /\ Len(runs) = Len(rows)
            /\ \A r \in 1..Len(rows) :
                 /\ Len(runs[r]) =
                       MaxOf([c \in 1..Len(rows[r]) |-> CountChar(rows[r][c].s, NL) + 1])
                 /\ \A l \in 1..Len(runs[r]) :
                       /\ CountChar(runs[r][l], "|") = Len(rows[r]) + 1
                       /\ \A c \in 1..Len(rows[r]) :
                             CountChar(rows[r][c].s, NL) + 1 < l =>
                                 OnlyChar(Segments(runs[r][l], "|")[c], " ")

\* C9's case: a rendered row whose second cell has more lines than its first.
C9_Witness ==
    /\ RenderedInto /\ exc = "none" /\ Len(table) >= 1 /\ Len(cols) = 2
    /\ \E r \in 1..Len(table) :
          CountChar(table[r][1].s, NL) # CountChar(table[r][2].s, NL)
    /\ CountChar(cols[1].s, NL) < CountChar(cols[2].s, NL)

\* C10: add_row with a replace_none that is not None stores it in place of
\* every None of row_values, the empty string included; with
\* replace_none=None the None values stay (str(None) when convert_to_str).
C10_ReplaceNone ==
    (last.op = "add_row" /\ exc = "none" /\ ~last.arg.row_values.isNone) =>
        LET rv == last.arg.row_values.v
            rn == last.arg.replace_none
            stored == table[Len(table)]
            keep(v) == IF last.arg.convert_to_str THEN Str(PyStr(v)) ELSE v
        IN  /\ Len(stored) = Len(rv)
            /\ \A i \in 1..Len(rv) :
                  stored[i] = IF rv[i].k = "none" /\ rn.k # "none" THEN rn ELSE keep(rv[i])

\* C10 for the replacements that are not the empty string.
C10_ReplaceNoneNonEmpty ==
    (last.op = "add_row" /\ last.arg.replace_none # Str(<<>>)) => C10_ReplaceNone

\* ----------------------------------------- RSTDocument: the other operations

\* An optional int argument, kept with its '%i' text.
PyInt(n) == [k |-> "int", s |-> IntToStr(n)]

\* RSTDocument.default_indent
default_indent == <<" ", " ", " ", " ">>

\* A heading line of a fixed length.
get_headingline_fixed(title, heading_char) == Repeat(heading_char, 2)

\* RSTDocument.__get_headingline
get_headingline(title, heading_char) == Repeat(heading_char, Len(title))

\* add_part and add_chapter: the heading line above and below the title.
heading_over_under(doc, title, heading_char) ==
    LET heading == get_headingline(title, heading_char)
    IN  doc \o (heading \o <<NL>>) \o (title \o <<NL>>) \o (heading \o <<NL>>) \o <<NL>>

\* add_section .. add_paragraph: the heading line below the title.
heading_under(doc, title, heading_char) ==
    LET heading == get_headingline(title, heading_char)
    IN  doc \o (title \o <<NL>>) \o (heading \o <<NL>>) \o <<NL>>

\* RSTDocument.add_part
add_part(doc, title) == heading_over_under(doc, title, "#")

\* RSTDocument.add_chapter
add_chapter(doc, title) == heading_over_under(doc, title, "*")

\* RSTDocument.add_section
add_section(doc, title) == heading_under(doc, title, "=")

\* RSTDocument.add_subsection
add_subsection(doc, title) == heading_under(doc, title, "-")

\* RSTDocument.add_subsubsection
add_subsubsection(doc, title) == heading_under(doc, title, "^")

\* RSTDocument.add_paragraph
add_paragraph(doc, title) == heading_under(doc, title, "\"")

\* RSTDocument.indent_text: indent + indent.join(text.splitlines(True)),
\* the indent before the text and after each line break but a final one.
indent_text(text, indent) ==
    indent \o Concat([i \in 1..Len(text) |->
                        IF text[i] = NL /\ i < Len(text) THEN <<NL>> \o indent
                        ELSE <<text[i]>>])

S_code_block == <<".", ".", " ", "c", "o", "d", "e", "-", "b", "l", "o", "c", "k", ":", ":", " ">>

S_linenos == <<":", "l", "i", "n", "e", "n", "o", "s", ":">>

S_emphasize ==
    <<":", "e", "m", "p", "h", "a", "s", "i", "z", "e", "-", "l", "i", "n", "e", "s", ":", " ">>

S_python == <<"p", "y", "t", "h", "o", "n">>

S_yaml == <<"y", "a", "m", "l">>

\* RSTDocument.add_code. emphasize_lines is [isNone, v] with v a list of ints.
add_code(doc, code_block, code_type, show_line_numbers, emphasize_lines) ==
    LET d1 == doc \o S_code_block \o code_type \o <<NL>>
        d2 == IF show_line_numbers
              THEN d1 \o indent_text(S_linenos, default_indent) \o <<NL>>
              ELSE d1
        e == emphasize_lines.v
        d3 == IF ~emphasize_lines.isNone
              THEN d2 \o indent_text(S_emphasize, default_indent)
                      \o Concat([i \in 1..Len(e) |->
                            IntToStr(e[i]) \o (IF i - 1 < Len(e) - 1 THEN <<",">> ELSE <<>>)])
                      \o <<NL>>
              ELSE d2
    IN  d3 \o <<NL>> \o indent_text(code_block, default_indent) \o <<NL>> \o <<NL>>

\* RSTDocument.add_spec: the YAML text of the spec as a yaml code block.
\* yaml stands for the text spec_to_yaml returns.
add_spec(doc, yaml) == add_code(doc, yaml, S_yaml, TRUE, [isNone |-> TRUE, v |-> <<>>])

Leaf(text) == [leaf |-> TRUE, s |-> text, items |-> <<>>]

Sub(items) == [leaf |-> FALSE, s |-> <<>>, items |-> items]

RECURSIVE add_list_from(_, _, _, _, _)
\* RSTDocument.add_list: the loop over content from item i on, then the
\* blank line that ends the list; a list or tuple item is a nested list,
\* indented one step more.
add_list_from(doc, content, i, indent, item_symbol) ==
    IF i > Len(content) THEN doc \o <<NL>>
    ELSE LET item == content[i]
             d == IF ~item.leaf
                  THEN add_list_from(doc, item.items, 1, indent \o default_indent, item_symbol)
                  ELSE doc \o (indent \o item_symbol \o <<" ">> \o item.s \o <<NL>>)
         IN  add_list_from(d, content, i + 1, indent, item_symbol)

\* RSTDocument.add_list with indent=None.
add_list(doc, content, item_symbol) == add_list_from(doc, content, 1, <<>>, item_symbol)

S_directive_open == <<".", ".", " ">>

\* RSTDocument.add_admonitions
add_admonitions(doc, atype, text) ==
    doc \o <<NL>> \o (S_directive_open \o atype \o <<":", ":">>) \o <<NL>>
        \o indent_text(text, default_indent) \o <<NL>> \o <<NL>>

S_include == <<".", ".", " ", "i", "n", "c", "l", "u", "d", "e", ":", ":", " ">>

\* RSTDocument.add_include; indent is a str or None.
add_include(doc, filename, indent) ==
    doc \o ((IF indent.k = "none" THEN <<>> ELSE indent.s) \o S_include \o filename) \o <<NL>>

S_figure == <<".", ".", " ", "f", "i", "g", "u", "r", "e", ":", ":", " ">>

S_scale == <<":", "s", "c", "a", "l", "e", ":", " ">>

S_percent == <<" ", "%">>

S_alt == <<":", "a", "l", "t", ":", " ">>

S_height == <<":", "h", "e", "i", "g", "h", "t", ":", " ">>

S_px == <<" ", "p", "x">>

S_width == <<":", "w", "i", "d", "t", "h", ":", " ">>

S_align == <<":", "a", "l", "i", "g", "n", ":", " ">>

S_target == <<":", "t", "a", "r", "g", "e", "t", ":", " ">>

A_top == <<"t", "o", "p">>

A_middle == <<"m", "i", "d", "d", "l", "e">>

A_bottom == <<"b", "o", "t", "t", "o", "m">>

A_left == <<"l", "e", "f", "t">>

A_center == <<"c", "e", "n", "t", "e", "r">>

A_right == <<"r", "i", "g", "h", "t">>

\* RSTDocument.ALIGN
ALIGN == {A_top, A_middle, A_bottom, A_left, A_center, A_right}

\* RSTDocument.add_figure: the outcome [exc, document]. f holds the
\* arguments; an align outside ALIGN raises after the lines before it.
add_figure(doc, f) ==
    LET I(t) == indent_text(t, default_indent)
        d1 == doc \o <<NL>> \o (S_figure \o f.img) \o <<NL>>
        d2 == IF f.scale.k # "none" THEN d1 \o (I(S_scale \o f.scale.s) \o S_percent \o <<NL>>) ELSE d1
        d3 == IF f.alt.k # "none" THEN d2 \o (I(S_alt \o f.alt.s) \o <<NL>>) ELSE d2
        d4 == IF f.height.k # "none" THEN d3 \o (I(S_height \o f.height.s \o S_px) \o <<NL>>) ELSE d3
        d5 == IF f.width.k # "none" THEN d4 \o (I(S_width \o f.width.s \o S_px) \o <<NL>>) ELSE d4
    IN  IF f.align.k # "none" /\ f.align.s \notin ALIGN
        THEN [exc |-> "ValueError", document |-> d5]
        ELSE LET d6 == IF f.align.k # "none" THEN d5 \o (I(S_align \o f.align.s) \o <<NL>>) ELSE d5
                 d7 == IF f.target.k # "none" THEN d6 \o (I(S_target \o f.target.s) \o <<NL>>) ELSE d6
                 d8 == d7 \o <<NL>>
                 d9 == IF f.caption.k # "none" THEN d8 \o (I(f.caption.s) \o <<NL>>) ELSE d8
                 d10 == IF f.legend.k # "none"
                        THEN (IF f.caption.k = "none"
                              THEN d9 \o (I(S_directive_open) \o <<NL>> \o default_indent \o <<NL>>)
                              ELSE d9) \o (I(f.legend.s) \o <<NL>>)
                        ELSE d9
             IN  [exc |-> "none", document |-> d10 \o <<NL>>]

S_sidebar == <<".", ".", " ", "s", "i", "d", "e", "b", "a", "r", ":", ":", " ">>

S_subtitle == <<":", "s", "u", "b", "t", "i", "t", "l", "e", ":", " ">>

\* RSTDocument.add_sidebar; subtitle is a str or None.
add_sidebar(doc, text, title, subtitle) ==
    LET d1 == doc \o <<NL>> \o (S_sidebar \o title \o <<NL>>)
        d2 == IF subtitle.k # "none"
              THEN d1 \o (indent_text(S_subtitle \o subtitle.s, default_indent) \o <<NL>>)
              ELSE d1
    IN  d2 \o <<NL>> \o (indent_text(text, default_indent) \o <<NL>> \o <<NL>>)

\* RSTDocument.add_topic (it writes the sidebar directive, as the source does).
add_topic(doc, text, title) ==
    doc \o <<NL>> \o (S_sidebar \o title \o <<NL>>) \o <<NL>>
        \o (indent_text(text, default_indent) \o <<NL>> \o <<NL>>)

S_raw_latex == <<".", ".", " ", "r", "a", "w", ":", ":", " ", "l", "a", "t", "e", "x">>

S_clearpage ==
    <<"\\", "c", "l", "e", "a", "r", "p", "a", "g", "e", " ", "\\", "n", "e", "w", "p", "a", "g", "e">>

\* RSTDocument.add_latex_clearpage
add_latex_clearpage(doc) ==
    doc \o <<NL>> \o (S_raw_latex \o <<NL>> \o <<NL>>)
        \o (default_indent \o S_clearpage \o <<NL>> \o <<NL>>)

\* RSTDocument.add_table: rst_table.render(self, **kwargs); [exc, document].
add_table(doc, c, t, o) ==
    LET r == render(c, t, [isNone |-> FALSE, document |-> doc], o)
    IN  [exc |-> r.exc, document |-> r.document]

\* ---------------------------------------------------- the document machine

T_ab == <<"a", "b">>

T_a_b == <<"a", NL, "b">>

Titles == {<<>>, T_ab}

Texts == {T_a, T_a_b}

NoList == [isNone |-> TRUE, v |-> <<>>]

\* content of add_list: flat, nested, and empty.
ListInputs ==
    {<<>>, <<Leaf(T_a), Leaf(T_ab)>>,
     <<Leaf(T_a), Sub(<<Leaf(T_ab), Sub(<<Leaf(T_a)>>)>>), Leaf(T_a)>>}

Fig(img, caption, legend, alt, height, width, scale, align, target) ==
    [img |-> img, caption |-> caption, legend |-> legend, alt |-> alt,
     height |-> height, width |-> width, scale |-> scale, align |-> align,
     target |-> target]

\* Arguments of add_figure: the image alone, every argument given, a legend
\* without a caption, and an align that is not in ALIGN.
FigureInputs ==
    {Fig(T_a, PyNone, PyNone, PyNone, PyNone, PyNone, PyNone, PyNone, PyNone),
     Fig(T_a, Str(T_a_b), Str(T_ab), Str(T_a), PyInt(10), PyInt(5), PyInt(50),
         Str(A_left), Str(T_ab)),
     Fig(T_a, PyNone, Str(T_a), PyNone, PyNone, PyNone, PyNone, Str(A_top), PyNone),
     Fig(T_a, Str(T_a), PyNone, Str(T_a), PyNone, PyNone, PyNone, Str(T_ab), PyNone)}

\* The tables add_table is given: without rows, with a row that fits the
\* header, and with a row that is shorter than the header.
DocTables ==
    LET c == RSTTable_init(<<Str(T_xy), Str(T_q_rs)>>)
    IN  {[cols |-> c, table |-> <<>>],
         [cols |-> c, table |-> add_row(c, <<>>, Row(<<Str(T_abc_d), PyNone>>), PyNone, TRUE).table],
         [cols |-> c, table |-> add_row(c, <<>>, Row(<<Str(T_a)>>), PyNone, TRUE).table]}

InitDoc ==
    /\ \E t \in DocTables : cols = t.cols /\ table = t.table
    /\ document = RSTDocument_init
    /\ exc = "none"
    /\ last = [op |-> "init", arg |-> NoArg]
    /\ stack = <<>> /\ spec_rows = <<>> /\ events = <<>> /\ calls = 0
    /\ desc_doc = RSTDocument_init /\ src_doc = RSTDocument_init /\ files = {}

\* One operation of the document at hand: it ran on text before and left
\* the text after, raising e.
DocStep(name, after, e) ==
    /\ Len(document) <= MaxDocLen
    /\ document' = after
    /\ exc' = e
    /\ last' = [op |-> name, arg |-> [before |-> document]]
    /\ UNCHANGED <<cols, table>>
    /\ UNCHANGED <<walk, outputs>>

\* The titles of headings: none, a word, and two lines.
HeadingTitles == Titles \cup {T_a_b}

\* One heading added to the document at hand.
HeadingStep(name, title, after) ==
    /\ Len(document) <= MaxDocLen
    /\ document' = after
    /\ exc' = "none"
    /\ last' = [op |-> name, arg |-> [before |-> document, title |-> title]]
    /\ UNCHANGED <<cols, table>>
    /\ UNCHANGED <<walk, outputs>>

DoAddText == \E t \in {T_a, <<NL>>} : DocStep("add_text", add_text(document, t), "none")

DoAddPart == \E t \in HeadingTitles : HeadingStep("add_part", t, add_part(document, t))

DoAddChapter == \E t \in HeadingTitles : HeadingStep("add_chapter", t, add_chapter(document, t))

DoAddSection == \E t \in HeadingTitles : HeadingStep("add_section", t, add_section(document, t))

DoAddSubsection ==
    \E t \in HeadingTitles : HeadingStep("add_subsection", t, add_subsection(document, t))

DoAddSubsubsection ==
    \E t \in HeadingTitles : HeadingStep("add_subsubsection", t, add_subsubsection(document, t))

DoAddParagraph == \E t \in HeadingTitles : HeadingStep("add_paragraph", t, add_paragraph(document, t))

DoAddLabel == \E l \in {T_ab} : DocStep("add_label", add_label(document, l), "none")

DoAddCode ==
    \E code \in Texts, ln \in BOOLEAN, em \in {NoList, [isNone |-> FALSE, v |-> <<1, 12>>]} :
        DocStep("add_code", add_code(document, code, S_python, ln, em), "none")

DoAddList ==
    \E content \in ListInputs, sym \in {<<"*">>} :
        DocStep("add_list", add_list(document, content, sym), "none")

DoAddAdmonitions ==
    \E text \in Texts :
        DocStep("add_admonitions", add_admonitions(document, <<"n", "o", "t", "e">>, text), "none")

DoAddInclude ==
    \E indent \in {PyNone, Str(default_indent)} :
        DocStep("add_include", add_include(document, T_ab, indent), "none")

DoAddFigure ==
    \E f \in FigureInputs :
        LET r == add_figure(document, f)
        IN  DocStep("add_figure", r.document, r.exc)

DoAddSidebar ==
    \E text \in Texts, subtitle \in {PyNone, Str(T_a)} :
        DocStep("add_sidebar", add_sidebar(document, text, T_ab, subtitle), "none")

DoAddTopic == \E text \in Texts : DocStep("add_topic", add_topic(document, text, T_ab), "none")

DoAddSpec == \E yaml \in {T_a_b \o <<NL>>} : DocStep("add_spec", add_spec(document, yaml), "none")

DoAddLatexClearpage == DocStep("add_latex_clearpage", add_latex_clearpage(document), "none")

DoAddTable ==
    \E o \in RenderOpts :
        LET r == add_table(document, cols, table, o)
        IN  DocStep("add_table", r.document, r.exc)

NextDoc ==
    \/ DoAddText \/ DoAddPart \/ DoAddChapter \/ DoAddSection \/ DoAddSubsection
    \/ DoAddSubsubsection \/ DoAddParagraph \/ DoAddLabel \/ DoAddCode \/ DoAddList
    \/ DoAddAdmonitions \/ DoAddInclude \/ DoAddFigure \/ DoAddSidebar \/ DoAddTopic
    \/ DoAddSpec \/ DoAddLatexClearpage \/ DoAddTable

SpecDoc == InitDoc /\ [][NextDoc]_vars

\* C2: the document is append-only: for every operation that changes it, the
\* text before the call is a prefix of the text after it.
C2_AppendOnly == [][IsPrefix(document, document')]_vars

\* C2's case: an operation of several appends ran on a document that held
\* text, and the text is longer now.
C2_Witness ==
    /\ last.op \in {"add_figure", "add_table", "add_list", "add_code"}
    /\ Len(last.arg.before) > 0
    /\ Len(document) > Len(last.arg.before) + 10

\* ------------------------------------------------------- specification trees

\* A spec of the catalog: its base type, its name and type identifiers
\* (str or None) and, for the group and dataset, what it holds.
Node(type, name, def, inc, attributes, datasets, links, groups) ==
    [type |-> type, name |-> name, data_type_def |-> def, data_type_inc |-> inc,
     attributes |-> attributes, datasets |-> datasets, links |-> links,
     groups |-> groups]

Attr(name) == Node("Attribute", Str(name), PyNone, PyNone, <<>>, <<>>, <<>>, <<>>)

Dset(name, attributes) == Node("Dataset", Str(name), PyNone, PyNone, attributes, <<>>, <<>>, <<>>)

Lnk(name) == Node("Link", Str(name), PyNone, PyNone, <<>>, <<>>, <<>>, <<>>)

N_a1 == <<"a", "1">>

N_a2 == <<"a", "2">>

N_d1 == <<"d", "1">>

N_d2 == <<"d", "2">>

N_l1 == <<"l", "1">>

N_g == <<"g">>

N_h == <<"h">>

N_k == <<"k">>

N_T == <<"T">>

\* A group that holds nothing.
G_leaf == Node("Group", Str(N_k), PyNone, PyNone, <<>>, <<>>, <<>>, <<>>)

\* A group with a link and no subgroup.
G_link == Node("Group", Str(N_h), PyNone, PyNone, <<>>, <<>>, <<Lnk(N_l1)>>, <<>>)

\* Subgroups three deep, with attributes and datasets on the way.
G_deep ==
    Node("Group", PyNone, Str(N_T), PyNone,
         <<Attr(N_a1)>>, <<Dset(N_d1, <<Attr(N_a2)>>)>>, <<Lnk(N_l1)>>,
         <<Node("Group", Str(N_g), PyNone, PyNone,
                <<>>, <<Dset(N_d2, <<>>)>>, <<>>,
                <<Node("Group", PyNone, PyNone, Str(N_T),
                       <<Attr(N_a1)>>, <<>>, <<>>, <<G_leaf>>)>>),
           G_link>>)

\* A group whose subgroup has no name, no data_type_def and no data_type_inc.
G_unnamed ==
    Node("Group", Str(N_g), PyNone, PyNone, <<>>, <<>>, <<>>,
         <<G_leaf, Node("Group", PyNone, PyNone, PyNone, <<>>, <<>>, <<>>, <<G_leaf>>)>>)

\* A group without name, data_type_def and data_type_inc.
G_anon == Node("Group", PyNone, PyNone, PyNone, <<Attr(N_a1)>>, <<>>, <<>>, <<>>)

GroupInputs == {G_leaf, G_link, G_deep, G_unnamed, G_anon}

SpecInputs == GroupInputs \cup {Dset(N_d1, <<Attr(N_a2)>>), Attr(N_a1)}

RECURSIVE NodeCount(_)
\* The specs of a tree, its root included.
NodeCount(spec) ==
    LET kids == spec.attributes \o spec.datasets \o spec.links \o spec.groups
        RECURSIVE Sum(_)
        Sum(q) == IF Len(q) = 0 THEN 0 ELSE NodeCount(Head(q)) + Sum(Tail(q))
    IN  1 + Sum(kids)

\* A type hierarchy as get_full_hierarchy returns it: an ordered dict from a
\* type to the ordered dict of its subtypes, here a sequence of [k, v].
Ty(k, v) == [k |-> k, v |-> v]

HierarchyInputs ==
    {<<>>,
     <<Ty(N_T, <<>>), Ty(N_g, <<>>)>>,
     <<Ty(N_T, <<Ty(N_g, <<Ty(N_h, <<>>)>>), Ty(N_k, <<>>)>>), Ty(N_d1, <<Ty(N_d2, <<>>)>>)>>}

RECURSIVE HierarchySize(_)
\* The types of a hierarchy.
HierarchySize(h) ==
    IF Len(h) = 0 THEN 0 ELSE 1 + HierarchySize(Head(h).v) + HierarchySize(Tail(h))

RECURSIVE ListSize(_)
\* The items of a nested list, the nested lists included.
ListSize(content) ==
    IF Len(content) = 0 THEN 0
    ELSE 1 + (IF Head(content).leaf THEN 0 ELSE ListSize(Head(content).items))
           + ListSize(Tail(content))

\* ------------------------------------------------------------ tree walkers

S_sec == <<"s", "e", "c", "-">>

\* RSTSectionLabelHelper.get_section_label
get_section_label(neurodata_type) == S_sec \o neurodata_type

\* The backquote of the RST roles; a TLA+ string cannot hold the character
\* itself, so "@", which no text of the model holds otherwise, stands for it.
BackQuote == "@"

\* RSTDocument.get_reference with a link title.
get_reference(label, link_title) ==
    <<":", "r", "e", "f", ":", BackQuote>> \o link_title \o <<" ", "<">> \o label
        \o <<">", BackQuote>>

\* The name render_spec_table gives a spec at a depth: [ok, text]. A spec
\* without name, data_type_def and data_type_inc has no type to refer to.
spec_name(spec, depth, depth_char) ==
    LET depth_str == Repeat(depth_char, depth)
    IN  IF spec.name.k # "none" THEN [ok |-> TRUE, text |-> depth_str \o spec.name.s]
        ELSE IF spec.data_type_def.k # "none"
        THEN [ok |-> TRUE, text |-> depth_str \o <<"<">> \o spec.data_type_def.s \o <<">">>]
        ELSE IF spec.data_type_inc.k # "none"
        THEN [ok |-> TRUE,
              text |-> depth_str \o <<"<">>
                       \o get_reference(get_section_label(spec.data_type_inc.s),
                                        spec.data_type_inc.s)
                       \o <<">">>]
        ELSE [ok |-> FALSE, text |-> <<>>]

\* The name of a spec without name, data_type_def and data_type_inc when the
\* spec holds a type under its type_key(): the lookup spec[spec.type_key()]
\* is the spec library's, and raises when the spec holds no such key.
type_key_name(spec, depth, depth_char, type) ==
    Repeat(depth_char, depth) \o <<"<">>
        \o get_reference(get_section_label(type), type) \o <<">">>

\* The name render_group_spec gives a group: [ok, text]; not ok raises ValueError.
group_name(spec) ==
    IF spec.name.k # "none" THEN [ok |-> TRUE, text |-> spec.name.s]
    ELSE IF spec.data_type_def.k # "none"
    THEN [ok |-> TRUE, text |-> <<"<">> \o spec.data_type_def.s \o <<">">>]
    ELSE IF spec.data_type_inc.k # "none"
    THEN [ok |-> TRUE, text |-> <<"<">> \o spec.data_type_inc.s \o <<">">>]
    ELSE [ok |-> FALSE, text |-> <<>>]

Top == stack[Len(stack)]

Pop == SubSeq(stack, 1, Len(stack) - 1)

ReplaceTop(f) == [stack EXCEPT ![Len(stack)] = f]

\* A loop that calls the same item again and again.
NextIndexStuck(i) == i

\* The step of a for loop to its next item.
NextIndex(i) == i + 1

\* A call of render_spec_table as it starts.
TableFrame(spec, depth, sa, sd, sl, sg, rec) ==
    [fn |-> "render_spec_table", spec |-> spec, depth |-> depth,
     show_subattributes |-> sa, show_subdatasets |-> sd, show_sublinks |-> sl,
     show_subgroups |-> sg, recursive_subgroups |-> rec, pc |-> "enter", i |-> 1]

\* The specs the loop at f.pc of render_spec_table runs over; none when its
\* condition is false.
PhaseItems(f) ==
    CASE f.pc = "attributes" ->
            IF f.spec.type \in {"Dataset", "Group"} /\ f.show_subattributes
            THEN f.spec.attributes ELSE <<>>
      [] f.pc = "datasets" ->
            IF f.spec.type = "Group" /\ f.show_subdatasets THEN f.spec.datasets ELSE <<>>
      [] f.pc = "links" ->
            IF f.spec.type = "Group" /\ f.show_sublinks THEN f.spec.links ELSE <<>>
      [] f.pc = "groups" ->
            IF f.show_subgroups /\ f.spec.type = "Group" THEN f.spec.groups ELSE <<>>
      [] OTHER -> <<>>

NextPhase(pc) ==
    CASE pc = "attributes" -> "datasets"
      [] pc = "datasets" -> "links"
      [] pc = "links" -> "groups"
      [] OTHER -> "return"

RECURSIVE Settle(_)
\* The frame moved on to its next recursive call, or to its return.
Settle(f) ==
    IF f.pc = "return" \/ f.i <= Len(PhaseItems(f)) THEN f
    ELSE Settle([f EXCEPT !.pc = NextPhase(f.pc), !.i = 1])

\* A recursive call that does not pass depth + 1.
ChildTableFrameSameDepth(f, child) == TableFrame(child, f.depth, TRUE, TRUE, TRUE, FALSE, FALSE)

\* The recursive call render_spec_table makes for item child of the loop at
\* f.pc: the arguments it passes, the others at their defaults.
ChildTableFrame(f, child) ==
    IF f.pc # "groups"
    THEN TableFrame(child, f.depth + 1, TRUE, TRUE, TRUE, FALSE, FALSE)
    ELSE IF f.recursive_subgroups
    THEN TableFrame(child, f.depth + 1, f.show_subattributes, f.show_subdatasets, TRUE,
                    f.show_subgroups, FALSE)
    ELSE TableFrame(child, f.depth + 1, FALSE, FALSE, TRUE, FALSE, f.recursive_subgroups)

\* An exception leaves every call that runs.
Raise(e) ==
    /\ stack' = <<>>
    /\ exc' = e
    /\ UNCHANGED <<outputs, cols, table, document, last, spec_rows, events, calls>>

\* One step of render_spec_table: it adds the row of its spec, makes its
\* next recursive call, or returns.
StepSpecTable ==
    /\ stack # <<>> /\ Top.fn = "render_spec_table"
    /\ LET f == Top
       IN  IF f.pc = "enter"
           THEN LET nm == spec_name(f.spec, f.depth, ".")
                IN  \/ /\ ~nm.ok
                       /\ \E e \in {"KeyError", "TypeError"} : Raise(e)
                    \/ \E text \in (IF nm.ok THEN {nm.text}
                                     ELSE {type_key_name(f.spec, f.depth, ".", N_T)}) :
                         /\ spec_rows' = Append(spec_rows,
                                [name |-> text, type |-> f.spec.type, depth |-> f.depth,
                                 spec |-> f.spec])
                         /\ stack' = ReplaceTop(Settle([f EXCEPT !.pc = "attributes", !.i = 1]))
                         /\ UNCHANGED <<outputs, cols, table, document, exc, last, events, calls>>
           ELSE IF f.pc = "return"
           THEN /\ stack' = Pop
                /\ UNCHANGED <<outputs, cols, table, document, exc, last, spec_rows, events, calls>>
           ELSE /\ stack' = Append(ReplaceTop(Settle([f EXCEPT !.i = NextIndex(f.i)])),
                                   ChildTableFrame(f, PhaseItems(f)[f.i]))
                /\ calls' = calls + 1
                /\ UNCHANGED <<outputs, cols, table, document, exc, last, spec_rows, events>>

\* A call of render_group_spec as it starts.
GroupFrame(spec, parent, separate) ==
    [fn |-> "render_group_spec", spec |-> spec, parent |-> parent,
     show_subgroups_in_seperate_table |-> separate, pc |-> "enter", i |-> 1]

\* What a finished table leaves in the document: a table of more than one row is added.
TableEvent(kind) ==
    IF Len(spec_rows) > 1
    THEN Append(events, [ev |-> "add_table", kind |-> kind, rows |-> spec_rows,
                         spec |-> Top.spec])
    ELSE events

\* One step of render_group_spec: the heading and the first table, the
\* second table, the loop over the subgroups, the return.
StepGroupSpec ==
    /\ stack # <<>> /\ Top.fn = "render_group_spec"
    /\ LET f == Top
           nm == group_name(f.spec)
       IN  CASE f.pc = "enter" ->
                  IF ~nm.ok THEN Raise("ValueError")
                  ELSE /\ events' = Append(events,
                              [ev |-> "heading",
                               title |-> <<"G", "r", "o", "u", "p", "s", ":", " ">>
                                         \o f.parent \o nm.text])
                       /\ spec_rows' = <<>>
                       /\ stack' = Append(ReplaceTop([f EXCEPT !.pc = "after1"]),
                              TableFrame(f.spec, 0, TRUE, TRUE, TRUE,
                                         ~f.show_subgroups_in_seperate_table, FALSE))
                       /\ calls' = calls + 1
                       /\ UNCHANGED <<outputs, cols, table, document, exc, last>>
             [] f.pc = "after1" /\ f.show_subgroups_in_seperate_table ->
                  /\ events' = TableEvent("data")
                  /\ spec_rows' = <<>>
                  /\ stack' = Append(ReplaceTop([f EXCEPT !.pc = "after2"]),
                         TableFrame(f.spec, 0, FALSE, FALSE, TRUE, TRUE, FALSE))
                  /\ calls' = calls + 1
                  /\ UNCHANGED <<outputs, cols, table, document, exc, last>>
             [] f.pc = "after1" /\ ~f.show_subgroups_in_seperate_table ->
                  /\ events' = TableEvent("data")
                  /\ stack' = ReplaceTop([f EXCEPT !.pc = "groups", !.i = 1])
                  /\ UNCHANGED <<outputs, cols, table, document, exc, last, spec_rows, calls>>
             [] f.pc = "after2" ->
                  /\ events' = TableEvent("groups")
                  /\ stack' = ReplaceTop([f EXCEPT !.pc = "groups", !.i = 1])
                  /\ UNCHANGED <<outputs, cols, table, document, exc, last, spec_rows, calls>>
             [] f.pc = "groups" /\ f.i <= Len(f.spec.groups) ->
                  /\ stack' = Append(ReplaceTop([f EXCEPT !.i = NextIndex(f.i)]),
                         GroupFrame(f.spec.groups[f.i], f.parent \o nm.text \o <<"/">>,
                                    f.show_subgroups_in_seperate_table))
                  /\ calls' = calls + 1
                  /\ UNCHANGED <<outputs, cols, table, document, exc, last, spec_rows, events>>
             [] f.pc = "groups" /\ f.i > Len(f.spec.groups) ->
                  /\ stack' = Pop
                  /\ UNCHANGED <<outputs, cols, table, document, exc, last, spec_rows, events, calls>>

S_hierarchy_label ==
    <<"d", "a", "t", "a", "_", "t", "y", "p", "e", "_", "h", "i", "e", "r", "a", "r", "c", "h", "y">>

S_hierarchy_title == <<"T", "y", "p", "e", " ", "H", "i", "e", "r", "a", "r", "c", "h", "y">>

\* indent_step of add_sub_hierarchy
indent_step == <<" ", " ", " ">>

\* A call of add_sub_hierarchy as it starts.
HierarchyFrame(h, depth) == [fn |-> "add_sub_hierarchy", h |-> h, depth |-> depth, i |-> 1]

\* A list item that is not indented by its depth.
type_list_item_flat(k, depth) ==
    <<"*", " ">> \o get_reference(get_section_label(k), k) \o <<NL>>

\* The list item add_sub_hierarchy writes for type k at a depth.
type_list_item(k, depth) ==
    Concat([d \in 1..depth |-> indent_step]) \o <<"*", " ">>
        \o get_reference(get_section_label(k), k) \o <<NL>>

\* One step of render_type_hierarchy: the label and the heading and the call
\* of add_sub_hierarchy, then the two line breaks that end the list and the
\* return of the document and the hierarchy.
StepTypeHierarchy ==
    /\ stack # <<>> /\ Top.fn = "render_type_hierarchy"
    /\ LET f == Top
       IN  IF f.pc = "enter"
           THEN /\ document' = add_subsection(add_label(document, S_hierarchy_label),
                                              S_hierarchy_title)
                /\ stack' = Append(ReplaceTop([f EXCEPT !.pc = "after"]),
                                   HierarchyFrame(f.h, 0))
                /\ calls' = calls + 1
                /\ UNCHANGED <<outputs, cols, table, exc, last, spec_rows, events>>
           ELSE /\ document' = add_text(document, <<NL, NL>>)
                /\ stack' = Pop
                /\ last' = [op |-> last.op, arg |-> last.arg,
                            ret |-> [target_doc |-> document', type_hierarchy |-> f.h,
                                     new_document |-> last.arg.target_doc = PyNone]]
                /\ UNCHANGED <<outputs, cols, table, exc, spec_rows, events, calls>>

\* One step of add_sub_hierarchy: the item of the next type and, when it has
\* subtypes, the call for them; the return after the last type.
StepSubHierarchy ==
    /\ stack # <<>> /\ Top.fn = "add_sub_hierarchy"
    /\ LET f == Top
       IN  IF f.i <= Len(f.h)
           THEN LET k == f.h[f.i].k
                    v == f.h[f.i].v
                    d == add_text(document, type_list_item(k, f.depth))
                    parent == ReplaceTop([f EXCEPT !.i = NextIndex(f.i)])
                IN  IF Len(v) > 0
                    THEN /\ document' = add_text(d, <<NL>>)
                         /\ stack' = Append(parent, HierarchyFrame(v, f.depth + 1))
                         /\ calls' = calls + 1
                         /\ UNCHANGED <<outputs, cols, table, exc, last, spec_rows, events>>
                    ELSE /\ document' = d
                         /\ stack' = parent
                         /\ UNCHANGED <<outputs, cols, table, exc, last, spec_rows, events, calls>>
           ELSE /\ stack' = Pop
                /\ UNCHANGED <<outputs, cols, table, document, exc, last, spec_rows, events, calls>>

\* A call of add_list as it starts.
ListFrame(content, indent) == [fn |-> "add_list", content |-> content, indent |-> indent, i |-> 1]

\* One step of add_list: the line of the next item, or the call for a nested
\* list; after the last item the blank line and the return.
StepAddList ==
    /\ stack # <<>> /\ Top.fn = "add_list"
    /\ LET f == Top
       IN  IF f.i <= Len(f.content)
           THEN LET item == f.content[f.i]
                    parent == ReplaceTop([f EXCEPT !.i = NextIndex(f.i)])
                IN  IF ~item.leaf
                    THEN /\ stack' = Append(parent,
                                ListFrame(item.items, f.indent \o default_indent))
                         /\ calls' = calls + 1
                         /\ UNCHANGED <<outputs, cols, table, document, exc, last, spec_rows, events>>
                    ELSE /\ document' = document \o (f.indent \o <<"*">> \o <<" ">>
                                                     \o item.s \o <<NL>>)
                         /\ stack' = parent
                         /\ UNCHANGED <<outputs, cols, table, exc, last, spec_rows, events, calls>>
           ELSE /\ document' = document \o <<NL>>
                /\ stack' = Pop
                /\ UNCHANGED <<outputs, cols, table, exc, last, spec_rows, events, calls>>

\* A walker is called when none runs: its first frame, and what it starts from.
Call(name, frame, doc, arg) ==
    /\ stack = <<>>
    /\ stack' = <<frame>>
    /\ calls' = 1
    /\ spec_rows' = <<>>
    /\ events' = <<>>
    /\ document' = doc
    /\ exc' = "none"
    /\ last' = [op |-> name, arg |-> arg]
    /\ UNCHANGED <<outputs, cols, table>>

CallRenderSpecTable ==
    \E spec \in SpecInputs, sa, sd, sl, sg, rec \in BOOLEAN :
        Call("render_spec_table", TableFrame(spec, 0, sa, sd, sl, sg, rec),
             RSTDocument_init,
             [spec |-> spec, show_subattributes |-> sa, show_subdatasets |-> sd,
              show_sublinks |-> sl, show_subgroups |-> sg, recursive_subgroups |-> rec,
              limit |-> NodeCount(spec)])

CallRenderGroupSpec ==
    \E spec \in GroupInputs, separate \in BOOLEAN :
        Call("render_group_spec", GroupFrame(spec, <<>>, separate), RSTDocument_init,
             [group_spec |-> spec, show_subgroups_in_seperate_table |-> separate,
              limit |-> NodeCount(spec) * (2 * NodeCount(spec) + 1)])

\* The document render_type_hierarchy renders to: a new one when target_doc
\* is None.
hierarchy_target(target_doc) ==
    IF target_doc = PyNone THEN RSTDocument_init ELSE target_doc.s

CallRenderTypeHierarchy ==
    \E h \in HierarchyInputs, target_doc \in {PyNone} \cup {Str(d) : d \in StartDocs} :
        Call("render_type_hierarchy", [fn |-> "render_type_hierarchy", h |-> h, pc |-> "enter"],
             hierarchy_target(target_doc),
             [type_hierarchy |-> h, target_doc |-> target_doc,
              before |-> hierarchy_target(target_doc), limit |-> HierarchySize(h) + 2])

CallAddList ==
    \E content \in ListInputs, doc \in StartDocs :
        Call("add_list", ListFrame(content, <<>>), doc,
             [content |-> content, before |-> doc, limit |-> ListSize(content) + 1])

\* The step of the call that runs.
WalkStep ==
    StepSpecTable \/ StepGroupSpec \/ StepTypeHierarchy \/ StepSubHierarchy \/ StepAddList

NextWalk ==
    \/ CallRenderSpecTable \/ CallRenderGroupSpec \/ CallRenderTypeHierarchy \/ CallAddList
    \/ WalkStep

\* A call that runs takes its next step: Python runs it to its end.
SpecWalk == Init /\ [][NextWalk]_vars /\ WF_vars(WalkStep)

IsWalk == last.op \in {"render_spec_table", "render_group_spec", "render_type_hierarchy", "add_list"}

\* C5: a walk over a finite tree returns: render_group_spec,
\* render_spec_table, render_type_hierarchy and add_list each reach their
\* return (or raise) after at most as many calls as the size of their
\* input allows.
C5_WalksTerminate ==
    /\ [](IsWalk => calls <= last.arg.limit)
    /\ (stack # <<>>) ~> (stack = <<>>)

\* C5's case: render_group_spec has returned from a tree of nested
\* subgroups, after a call for each of them and for their tables.
C5_Witness ==
    /\ last.op = "render_group_spec" /\ last.arg.group_spec = G_deep
    /\ stack = <<>> /\ exc = "none" /\ calls >= 10
    /\ Len(events) >= 6

\* ------------------------------------------------- add_row without values

\* C11: add_row with row_values=None appends one row of num_cols() empty
\* strings and num_rows() grows by exactly one, whatever replace_none and
\* convert_to_str are.
C11_AddRowNone ==
    [][(last'.op = "add_row" /\ last'.arg.row_values.isNone) =>
          /\ exc' = "none"
          /\ num_rows(table') = num_rows(table) + 1
          /\ table'[Len(table')] = [i \in 1..num_cols(cols) |-> Str(<<>>)]]_vars

\* C11 for the calls whose replace_none is None or the empty string.
C11_AddRowNoneNoReplacement ==
    [][(/\ last'.op = "add_row" /\ last'.arg.row_values.isNone
        /\ ~Truthy(last'.arg.replace_none)) =>
          /\ exc' = "none"
          /\ num_rows(table') = num_rows(table) + 1
          /\ table'[Len(table')] = [i \in 1..num_cols(cols) |-> Str(<<>>)]]_vars

\* ------------------------------------------------------- pure functions

\* The largest magnitude of an int quantity.
MaxQuantity == 60

\* A Python int.
QInt(n) == [k |-> "int", n |-> n]

\* str(n) of an int n.
str_int(n) == IF n < 0 THEN <<"-">> \o IntToStr(0 - n) ELSE IntToStr(n)

S_zero_or_more == <<"z", "e", "r", "o", "_", "o", "r", "_", "m", "o", "r", "e">>

S_one_or_more == <<"o", "n", "e", "_", "o", "r", "_", "m", "o", "r", "e">>

S_zero_or_one == <<"z", "e", "r", "o", "_", "o", "r", "_", "o", "n", "e">>

S_0_or_more == <<"0", " ", "o", "r", " ", "m", "o", "r", "e">>

S_1_or_more == <<"1", " ", "o", "r", " ", "m", "o", "r", "e">>

S_0_or_1 == <<"0", " ", "o", "r", " ", "1">>

\* qdict of quantity_to_string: its items in order.
qdict ==
    << <<<<"*">>, S_0_or_more>>, <<S_zero_or_more, S_0_or_more>>,
       <<<<"+">>, S_1_or_more>>, <<S_one_or_more, S_1_or_more>>,
       <<<<"?">>, S_0_or_1>>, <<S_zero_or_one, S_0_or_1>> >>

\* A lookup that gives the key back when qdict does not hold it.
qdict_get_default(key) ==
    IF \E i \in 1..Len(qdict) : qdict[i][1] = key
    THEN [exc |-> "none", text |-> qdict[CHOOSE i \in 1..Len(qdict) : qdict[i][1] = key][2]]
    ELSE [exc |-> "none", text |-> key]

\* qdict[key]: the outcome [exc, text], KeyError for a key qdict does not hold.
qdict_get(key) ==
    IF \E i \in 1..Len(qdict) : qdict[i][1] = key
    THEN [exc |-> "none", text |-> qdict[CHOOSE i \in 1..Len(qdict) : qdict[i][1] = key][2]]
    ELSE [exc |-> "KeyError", text |-> <<>>]

\* SpecToRST.quantity_to_string: the outcome [exc, text].
quantity_to_string(quantity) ==
    IF quantity.k = "int"
    THEN [exc |-> "none", text |-> str_int(quantity.n)]
    ELSE qdict_get(quantity.s)

\* A get_src_section_label whose last branch returns the description label.
get_src_section_label_else_label(neurodata_type, generate_src_file, show_yaml_src) ==
    IF generate_src_file
    THEN Str(S_sec \o neurodata_type \o <<"-", "s", "r", "c">>)
    ELSE Str(get_section_label(neurodata_type))

\* RSTSectionLabelHelper.get_src_section_label: a str, or None.
get_src_section_label(neurodata_type, generate_src_file, show_yaml_src) ==
    IF generate_src_file
    THEN Str(S_sec \o neurodata_type \o <<"-", "s", "r", "c">>)
    ELSE IF show_yaml_src
    THEN Str(get_section_label(neurodata_type))
    ELSE PyNone   \* the branch holds the expression None and the function ends

\* quantity identifiers: the six of the schema language, other strings
\* (the empty one and a known one in capitals among them), and ints.
QuantityInputs ==
    {Str(qdict[i][1]) : i \in 1..Len(qdict)}
    \cup {Str(<<>>), Str(<<"x">>), Str(<<"1">>), Str(<<"Z", "E", "R", "O", "_", "O", "R", "_", "O", "N", "E">>),
          Str(S_0_or_1)}
    \cup {QInt(n) : n \in (0 - MaxQuantity)..MaxQuantity}

TypeNames == {N_T, N_g, <<"A", "b">>, <<>>}

QuantityToString ==
    \E q \in QuantityInputs :
        LET r == quantity_to_string(q)
        IN  /\ last' = [op |-> "quantity_to_string", arg |-> [quantity |-> q], ret |-> r.text]
            /\ exc' = r.exc
            /\ UNCHANGED <<cols, table, document>>
            /\ UNCHANGED <<walk, outputs>>

GetSrcSectionLabel ==
    \E T \in TypeNames, generate_src_file, show_yaml_src \in BOOLEAN :
        /\ last' = [op |-> "get_src_section_label",
                    arg |-> [neurodata_type |-> T, generate_src_file |-> generate_src_file,
                             show_yaml_src |-> show_yaml_src],
                    ret |-> get_src_section_label(T, generate_src_file, show_yaml_src)]
        /\ exc' = "none"
        /\ UNCHANGED <<cols, table, document>>
        /\ UNCHANGED <<walk, outputs>>

\* DataTypeSection.__init__, with the source file that is its key in the
\* ordered dict of the sections.
DataTypeSection(file, title, intro, data_types) ==
    [file |-> file, title |-> title, intro |-> intro, data_types |-> data_types]

\* sort_types_to_sections, the sections as they start: one for each source
\* file of the namespace, in their order. descr gives for a file what its
\* description holds under 'title' and 'doc', None for a key it does not hold.
initial_sections(source_files, descr) ==
    [i \in 1..Len(source_files) |->
        LET spec_filename == source_files[i]
            spec_descr == descr[spec_filename]
        IN  DataTypeSection(spec_filename,
                            IF spec_descr.title = PyNone THEN spec_filename
                            ELSE spec_descr.title.s,
                            spec_descr.doc,
                            <<>>)]

\* sections[spec_filename]['data_types'].append(nt): KeyError when no
\* section has the key.
place_type(sections, nt, spec_filename) ==
    IF \E i \in 1..Len(sections) : sections[i].file = spec_filename
    THEN [exc |-> "none",
          sections |-> [i \in 1..Len(sections) |->
                           IF sections[i].file = spec_filename
                           THEN [sections[i] EXCEPT !.data_types = Append(@, nt)]
                           ELSE sections[i]]]
    ELSE [exc |-> "KeyError", sections |-> sections]

RECURSIVE place_types(_, _, _, _)
\* The loop over the registered types from the i-th on; it ends at the first
\* exception.
place_types(sections, registered_types, source_file, i) ==
    IF i > Len(registered_types) THEN [exc |-> "none", sections |-> sections]
    ELSE LET r == place_type(sections, registered_types[i], source_file[registered_types[i]])
         IN  IF r.exc # "none" THEN r
             ELSE place_types(r.sections, registered_types, source_file, i + 1)

\* DataTypeSection.sort_types_to_sections. What the namespace and its
\* catalog answer is given: the source files, their descriptions, the
\* registered types and the source file of each.
sort_types_to_sections(source_files, descr, registered_types, source_file) ==
    place_types(initial_sections(source_files, descr), registered_types, source_file, 1)

F_base == <<"b", "a", "s", "e", ".", "y", "a", "m", "l">>

F_file == <<"f", "i", "l", "e", ".", "y", "a", "m", "l">>

F_common == <<"c", "o", "m", "m", "o", "n", ".", "y", "a", "m", "l">>

T_base_title == <<"B", "a", "s", "e", " ", "t", "y", "p", "e", "s">>

T_intro == <<"I", "n", "t", "r", "o">>

\* The source files of a namespace.
SourceFileLists == {<<>>, <<F_base>>, <<F_base, F_file>>, <<F_file, F_base>>}

\* The descriptions of the source files: with a title or without, with a
\* doc or without.
SourceDescriptions ==
    [{F_base, F_file} -> {[title |-> PyNone, doc |-> PyNone],
                          [title |-> Str(T_base_title), doc |-> Str(T_intro)]}]

\* The registered types of a catalog.
RegisteredTypeLists == {<<>>, <<N_T>>, <<N_T, N_g>>, <<N_g, N_T, N_h>>}

\* The source file of each type: one of the namespace, or the file of a
\* namespace that this one includes.
TypeSources == {f \in [{N_T, N_g, N_h} -> {F_base, F_file, F_common}] : f[N_h] = F_base}

SortTypesToSections ==
    \E source_files \in SourceFileLists, descr \in SourceDescriptions,
       registered_types \in RegisteredTypeLists, source_file \in TypeSources :
        LET r == sort_types_to_sections(source_files, descr, registered_types, source_file)
        IN  /\ last' = [op |-> "sort_types_to_sections",
                        arg |-> [source_files |-> source_files, descr |-> descr,
                                 registered_types |-> registered_types,
                                 source_file |-> source_file],
                        ret |-> IF r.exc = "none" THEN r.sections ELSE <<>>]
            /\ exc' = r.exc
            /\ UNCHANGED <<cols, table, document>>
            /\ UNCHANGED <<walk, outputs>>

NextFn == QuantityToString \/ GetSrcSectionLabel \/ SortTypesToSections

SpecFn == Init /\ [][NextFn]_vars

RECURSIVE DecValue(_)
\* The number a text of decimal digits writes.
DecValue(text) ==
    IF Len(text) = 0 THEN 0
    ELSE 10 * DecValue(SubSeq(text, 1, Len(text) - 1))
         + (CHOOSE d \in 0..9 : <<"0", "1", "2", "3", "4", "5", "6", "7", "8", "9">>[d + 1]
                                   = text[Len(text)])

\* text is the decimal string of the int n: a '-' for a negative n, then
\* digits without a leading zero that write its magnitude.
IsDecimalOf(text, n) ==
    LET digits == IF n < 0 THEN Tail(text) ELSE text
        mag == IF n < 0 THEN 0 - n ELSE n
    IN  /\ Len(text) >= 1
        /\ (n < 0) = (text[1] = "-")
        /\ Len(digits) >= 1
        /\ \A i \in 1..Len(digits) :
              digits[i] \in {"0", "1", "2", "3", "4", "5", "6", "7", "8", "9"}
        /\ (Len(digits) > 1 => digits[1] # "0")
        /\ DecValue(digits) = mag

\* C12: quantity_to_string gives '0 or more' for '*' and 'zero_or_more',
\* '1 or more' for '+' and 'one_or_more', '0 or 1' for '?' and
\* 'zero_or_one', the decimal string for an int, and raises for every other
\* string.
C12_QuantityToString ==
    last.op = "quantity_to_string" =>
        LET q == last.arg.quantity
        IN  IF q.k = "int" THEN exc = "none" /\ IsDecimalOf(last.ret, q.n)
            ELSE IF q.s \in {<<"*">>, S_zero_or_more} THEN exc = "none" /\ last.ret = S_0_or_more
            ELSE IF q.s \in {<<"+">>, S_one_or_more} THEN exc = "none" /\ last.ret = S_1_or_more
            ELSE IF q.s \in {<<"?">>, S_zero_or_one} THEN exc = "none" /\ last.ret = S_0_or_1
            ELSE exc # "none"

\* C12's case: a string that is no quantity identifier was rejected.
C12_Witness ==
    /\ last.op = "quantity_to_string" /\ last.arg.quantity = Str(S_0_or_1)
    /\ exc = "KeyError"

\* C13: get_src_section_label gives 'sec-T-src' when generate_src_file,
\* 'sec-T' when not generate_src_file and show_yaml_src, None when neither.
C13_SrcSectionLabel ==
    last.op = "get_src_section_label" =>
        LET a == last.arg
        IN  /\ a.generate_src_file =>
                last.ret = Str(<<"s", "e", "c", "-">> \o a.neurodata_type \o <<"-", "s", "r", "c">>)
            /\ (~a.generate_src_file /\ a.show_yaml_src) =>
                last.ret = Str(<<"s", "e", "c", "-">> \o a.neurodata_type)
            /\ (~a.generate_src_file /\ ~a.show_yaml_src) => last.ret = PyNone

\* C13's case: neither flag was set, and None came back.
C13_Witness ==
    /\ last.op = "get_src_section_label"
    /\ ~last.arg.generate_src_file /\ ~last.arg.show_yaml_src
    /\ last.arg.neurodata_type = N_T /\ last.ret = PyNone

\* ------------------------------------------- what the tree walkers render

\* A call of the walker named op has ended, by return or raise.
Ended(op) == last.op = op /\ stack = <<>>

RECURSIVE HasUnnamedGroup(_)
\* Some group of the tree has no name, no data_type_def and no data_type_inc.
HasUnnamedGroup(spec) ==
    \/ spec.name = PyNone /\ spec.data_type_def = PyNone /\ spec.data_type_inc = PyNone
    \/ \E i \in 1..Len(spec.groups) : HasUnnamedGroup(spec.groups[i])

\* C14: render_group_spec raises ValueError when a group of the tree, the
\* root or a nested subgroup, has none of name, data_type_def and
\* data_type_inc, and returns without raising otherwise.
C14_UnnamedGroupValueError ==
    Ended("render_group_spec") =>
        IF HasUnnamedGroup(last.arg.group_spec) THEN exc = "ValueError" ELSE exc = "none"

\* C14 for the trees whose unnamed group, if any, is the root.
C14_UnnamedRootValueError ==
    (Ended("render_group_spec")
        /\ \A i \in 1..Len(last.arg.group_spec.groups) :
              ~HasUnnamedGroup(last.arg.group_spec.groups[i])) =>
        IF HasUnnamedGroup(last.arg.group_spec) THEN exc = "ValueError" ELSE exc = "none"

RECURSIVE DescendantGroups(_, _)
\* The groups below spec, each with its depth below the spec at depth.
DescendantGroups(spec, depth) ==
    UNION {{[spec |-> spec.groups[i], depth |-> depth + 1]}
              \cup DescendantGroups(spec.groups[i], depth + 1) : i \in 1..Len(spec.groups)}

\* The groups that have a row in the table, each with the depth of its row.
GroupRows ==
    {[spec |-> spec_rows[i].spec, depth |-> spec_rows[i].depth] :
        i \in {j \in 1..Len(spec_rows) : spec_rows[j].type = "Group"}}

\* C15: render_spec_table of a group with show_subgroups: with
\* recursive_subgroups every descendant group, at every depth, has a row;
\* without, only the direct subgroups have one.
C15_RecursiveSubgroups ==
    (/\ Ended("render_spec_table") /\ exc = "none"
     /\ last.arg.spec.type = "Group" /\ last.arg.show_subgroups) =>
        LET root == [spec |-> last.arg.spec, depth |-> 0]
        IN  IF last.arg.recursive_subgroups
            THEN GroupRows = {root} \cup DescendantGroups(last.arg.spec, 0)
            ELSE GroupRows = {root} \cup {[spec |-> last.arg.spec.groups[i], depth |-> 1] :
                                             i \in 1..Len(last.arg.spec.groups)}

\* C15 for the calls without recursive_subgroups.
C15_DirectSubgroups ==
    (last.op = "render_spec_table" /\ ~last.arg.recursive_subgroups) => C15_RecursiveSubgroups

\* C16: render_spec_table with show_subattributes=False renders no
\* attribute below the given spec: no row of type 'Attribute' at any depth
\* below 0, whatever show_subdatasets, show_sublinks and show_subgroups are.
C16_NoAttributes ==
    (last.op = "render_spec_table" /\ ~last.arg.show_subattributes) =>
        \A i \in 1..Len(spec_rows) :
            spec_rows[i].depth >= 1 => spec_rows[i].type # "Attribute"

\* C16 for the calls that show no subdatasets either.
C16_NoAttributesNoDatasets ==
    (last.op = "render_spec_table" /\ ~last.arg.show_subdatasets) => C16_NoAttributes

\* The tables render_group_spec added for group spec, by kind.
TablesOf(spec, kind) ==
    {i \in 1..Len(events) :
        events[i].ev = "add_table" /\ events[i].kind = kind /\ events[i].spec = spec}

\* C17: render_group_spec adds a table only if it holds more than the group
\* itself: the table of datasets, links and attributes only for a group
\* with an attribute, a dataset or a link (or, when the subgroups are shown
\* in the same table, a subgroup), and the table 'Groups contained in' only
\* for a group with a subgroup.
C17_TablesOnlyWithContent ==
    last.op = "render_group_spec" =>
        \A i \in 1..Len(events) :
            events[i].ev = "add_table" =>
                LET g == events[i].spec
                    has_data == Len(g.attributes) + Len(g.datasets) + Len(g.links) > 0
                    has_groups == Len(g.groups) > 0
                IN  IF events[i].kind = "groups" THEN has_groups
                    ELSE \/ has_data
                         \/ ~last.arg.show_subgroups_in_seperate_table /\ has_groups

\* C17 for the table of datasets, links and attributes alone.
C17_DataTableOnlyWithContent ==
    last.op = "render_group_spec" =>
        \A i \in 1..Len(events) :
            (events[i].ev = "add_table" /\ events[i].kind = "data") =>
                LET g == events[i].spec
                IN  \/ Len(g.attributes) + Len(g.datasets) + Len(g.links) > 0
                    \/ ~last.arg.show_subgroups_in_seperate_table /\ Len(g.groups) > 0

\* ------------------------------------------------------- render_namespace

S_format_overview == <<"F", "o", "r", "m", "a", "t", " ", "O", "v", "e", "r", "v", "i", "e", "w">>

ns_desc_label == <<"n", "w", "b", "-", "t", "y", "p", "e", "-", "n", "a", "m", "e", "s", "p", "a", "c", "e", "-", "d", "o", "c">>

ns_src_label == <<"n", "w", "b", "-", "t", "y", "p", "e", "-", "n", "a", "m", "e", "s", "p", "a", "c", "e", "-", "s", "r", "c">>

S_namespace_heading == <<"N", "a", "m", "e", "s", "p", "a", "c", "e", " ", "-", "-", " ">>

S_source_specification == <<"*", "*", "S", "o", "u", "r", "c", "e", " ", "S", "p", "e", "c", "i", "f", "i", "c", "a", "t", "i", "o", "n", ":", "*", "*", " ", "s", "e", "e", " ">>

S_description_see == <<"*", "*", "D", "e", "s", "c", "r", "i", "p", "t", "i", "o", "n", ":", "*", "*", " ", "s", "e", "e", " ">>

S_yaml_specification == <<"*", "*", "Y", "A", "M", "L", " ", "S", "p", "e", "c", "i", "f", "i", "c", "a", "t", "i", "o", "n", ":", "*", "*">>

S_item_description == <<"*", "*", "D", "e", "s", "c", "r", "i", "p", "t", "i", "o", "n", ":", "*", "*", " ">>

S_item_name == <<"*", "*", "N", "a", "m", "e", ":", "*", "*", " ">>

S_item_full_name == <<"*", "*", "F", "u", "l", "l", " ", "N", "a", "m", "e", ":", "*", "*", " ">>

S_item_version == <<"*", "*", "V", "e", "r", "s", "i", "o", "n", ":", "*", "*", " ">>

S_item_date == <<"*", "*", "D", "a", "t", "e", ":", "*", "*", " ">>

S_item_authors == <<"*", "*", "A", "u", "t", "h", "o", "r", "s", ":", "*", "*">>

S_item_author == <<"*", "*", "A", "u", "t", "h", "o", "r", ":", "*", "*", " ">>

S_item_contacts == <<"*", "*", "C", "o", "n", "t", "a", "c", "t", "s", ":", "*", "*">>

S_item_contact == <<"*", "*", "C", "o", "n", "t", "a", "c", "t", ":", "*", "*", " ">>

S_item_schema == <<"*", "*", "S", "c", "h", "e", "m", "a", ":", "*", "*">>

S_only_html == <<".", ".", " ", "o", "n", "l", "y", ":", ":", " ", "h", "t", "m", "l", " ">>

S_only_latex == <<".", ".", " ", "o", "n", "l", "y", ":", ":", " ", "l", "a", "t", "e", "x", " ">>

S_namespace_source_inc == <<"_", "n", "a", "m", "e", "s", "p", "a", "c", "e", "_", "s", "o", "u", "r", "c", "e", ".", "i", "n", "c">>

S_namespace_description_inc == <<"_", "n", "a", "m", "e", "s", "p", "a", "c", "e", "_", "d", "e", "s", "c", "r", "i", "p", "t", "i", "o", "n", ".", "i", "n", "c">>

S_numref == <<":", "n", "u", "m", "r", "e", "f", ":">>

\* RSTDocument.get_numbered_reference
get_numbered_reference(label) == S_numref \o <<BackQuote>> \o label \o <<BackQuote>>

\* A Python list of values.
PyList(v) == [k |-> "list", v |-> v]

\* A Python dict: its items in order, each <<key, value>>.
PyDict(items) == [k |-> "dict", items |-> items]

\* A namespace of the catalog: the keys it holds have a value, the others None.
Namespace(name, full_name, doc, version, date, author, contact, schema) ==
    [name |-> name, full_name |-> full_name, doc |-> doc, version |-> version,
     date |-> date, author |-> author, contact |-> contact, schema |-> schema]

\* "key in curr_namespace"
Has(v) == v.k # "none"

\* subsec_heading of render_namespace: the conditional expression takes the
\* name alone when the namespace has no full_name.
subsec_heading(ns) ==
    IF Has(ns.full_name) THEN S_namespace_heading \o ns.full_name.s ELSE ns.name.s

\* The items desc_list gets for a key that holds one value or a list of
\* them (author, contact).
one_or_list(v, many, one) ==
    IF ~Has(v) THEN <<>>
    ELSE IF v.k = "list"
    THEN <<Leaf(many), Sub([i \in 1..Len(v.v) |-> Leaf(v.v[i])])>>
    ELSE <<Leaf(one \o v.s)>>

\* The text of one item of the schema list.
schema_str(s) ==
    IF s.k = "dict"
    THEN Concat([i \in 1..Len(s.items) |->
                    <<"*", "*">> \o s.items[i][1] \o <<":", "*", "*", " ">>
                        \o s.items[i][2] \o <<" ">>])
    ELSE s.s

\* desc_list of render_namespace.
desc_list(ns) ==
    (IF Has(ns.doc) THEN <<Leaf(S_item_description \o ns.doc.s)>> ELSE <<>>)
    \o (IF Has(ns.name) THEN <<Leaf(S_item_name \o ns.name.s)>> ELSE <<>>)
    \o (IF Has(ns.full_name) THEN <<Leaf(S_item_full_name \o ns.full_name.s)>> ELSE <<>>)
    \o (IF Has(ns.version) THEN <<Leaf(S_item_version \o ns.version.s)>> ELSE <<>>)
    \o (IF Has(ns.date) THEN <<Leaf(S_item_date \o ns.date.s)>> ELSE <<>>)
    \o one_or_list(ns.author, S_item_authors, S_item_author)
    \o one_or_list(ns.contact, S_item_contacts, S_item_contact)
    \o (IF Has(ns.schema)
        THEN <<Leaf(S_item_schema),
               Sub([i \in 1..Len(ns.schema.v) |-> Leaf(schema_str(ns.schema.v[i]))])>>
        ELSE <<>>)

\* os.path.basename: what follows the last '/'.
basename(path) ==
    LET slashes == {i \in 1..Len(path) : path[i] = "/"}
    IN  IF slashes = {} THEN path
        ELSE SubSeq(path, (CHOOSE i \in slashes : \A j \in slashes : j <= i) + 1, Len(path))

\* os.path.join of a directory and a relative name.
path_join(dir, name) ==
    IF Len(dir) = 0 \/ dir[Len(dir)] = "/" THEN dir \o name ELSE dir \o <<"/">> \o name

\* RSTDocument.write with mode 'w': the file holds the document, whatever
\* it held before.
write(fs, filename, text) ==
    {f \in fs : f.name # filename} \cup {[name |-> filename, text |-> text]}

\* The path render_namespace includes in the latex block: the html one.
latex_block_path(html, latex) == html

\* The document render_namespace adds the link to the source to.
source_link_target(ns_desc_ref, ns_src_ref) == ns_src_ref

\* A routing that renders into the given document whatever file_per_type says.
ns_doc_direct(ref, new, file_per_type) == ref

\* ns_desc_doc and ns_src_doc: the given document, or a new one when
\* file_per_type.
ns_doc(ref, new, file_per_type) == IF ~file_per_type THEN ref ELSE new

\* '%s' of a str or None.
Fmt(v) == IF v.k = "none" THEN S_NoneStr ELSE v.s

\* The include of the type hierarchy, into the document with text doc.
include_type_hierarchy(doc, html, latex) ==
    IF html = latex
    THEN add_include(doc, Fmt(html), PyNone)
    ELSE LET d1 == IF html.k # "none"
                   THEN add_text(
                            add_include(add_text(doc, S_only_html \o <<NL, NL>>),
                                        Fmt(html), Str(default_indent)),
                            <<NL>>)
                   ELSE doc
         IN  IF latex.k # "none"
             THEN add_text(
                      add_include(add_text(d1, S_only_latex \o <<NL, NL>>),
                                  Fmt(latex_block_path(html, latex)), Str(default_indent)),
                      <<NL>>)
             ELSE d1

\* The documents render_namespace works on are cells of a store, so that
\* src_doc can be the same object as desc_doc: "desc" and "src" are the
\* documents given, "ns_desc" and "ns_src" the new ones, and a reference is
\* the name of a cell, or "none" for None.
ns_store(h) ==
    [desc |-> h.desc, src |-> h.src, ns_desc |-> RSTDocument_init, ns_src |-> RSTDocument_init]

\* The file settings and the targets of render_namespace: a holds the
\* arguments, desc_given and src_given say whether desc_doc and src_doc are
\* documents or None.
ns_refs(a) ==
    LET desc_ref == IF a.desc_given THEN "desc" ELSE "none"
        src_ref == IF a.src_given THEN "src"
                   ELSE IF a.show_yaml_src THEN desc_ref ELSE "none"
    IN  [desc |-> desc_ref, src |-> src_ref,
         seperate_src_file |-> a.src_given,
         ns_desc |-> ns_doc(desc_ref, "ns_desc", a.file_per_type),
         ns_src |-> ns_doc(src_ref, "ns_src", a.file_per_type),
         namespace_name |-> IF a.namespace_name.k = "none" THEN a.default_namespace
                            ELSE a.namespace_name.s]

\* render_namespace, the description of the namespace.
render_description(m, r, a) ==
    IF r.desc = "none" THEN m
    ELSE LET ma == [m EXCEPT ![r.ns_desc] =
                       add_subsection(
                           add_label(add_section(@, S_format_overview), ns_desc_label),
                           subsec_heading(a.ns))]
             mb == IF r.seperate_src_file
                   THEN [ma EXCEPT ![source_link_target(r.ns_desc, r.ns_src)] =
                            add_text(@, S_source_specification
                                        \o get_numbered_reference(ns_src_label)
                                        \o <<" ", NL, " ", NL>>)]
                   ELSE ma
         IN  IF Len(desc_list(a.ns)) > 0
             THEN [mb EXCEPT ![r.ns_desc] = add_list(@, desc_list(a.ns), <<"-">>)]
             ELSE mb

\* "type_hierarchy_include_html is not None or
\* type_hierarchy_include_latex is not None"
wants_include(a) == a.html.k # "none" \/ a.latex.k # "none"

\* render_namespace, the include of the type hierarchy (ns_desc_doc is a
\* document here).
render_includes(m, r, a) ==
    IF wants_include(a)
    THEN [m EXCEPT ![r.ns_desc] = include_type_hierarchy(@, a.html, a.latex)]
    ELSE m

\* The label, the heading and the link back of a source document of its own.
source_head(doc, a) ==
    add_text(add_subsection(add_label(doc, ns_src_label), subsec_heading(a.ns)),
             S_description_see \o get_numbered_reference(ns_desc_label) \o <<NL, NL>>)

\* The yaml text of the namespace: a.yaml is what spec_to_yaml gives for it.
source_yaml(doc, a) == add_spec(add_text(doc, S_yaml_specification \o <<NL, NL>>), a.yaml)

\* render_namespace, the source of the namespace.
render_source(m, r, a) ==
    IF r.src = "none" THEN m
    ELSE [m EXCEPT ![r.ns_src] =
             IF r.seperate_src_file
             THEN IF a.show_yaml_src THEN source_yaml(source_head(@, a), a)
                  ELSE source_head(@, a)
             ELSE IF a.show_yaml_src THEN source_yaml(@, a) ELSE @]

\* render_namespace, saving one output file: the document of cell ns is
\* written to file_dir, and the document of cell ref includes it.
save_file(st, ref, ns, suffix, r, a) ==
    IF a.file_per_type /\ a.file_dir.k # "none" /\ ref # "none"
    THEN LET filename == path_join(a.file_dir.s, r.namespace_name \o suffix)
         IN  [m |-> [st.m EXCEPT ![ref] =
                        add_include(@, basename(a.file_dir.s) \o <<"/">> \o basename(filename),
                                    PyNone)],
              files |-> write(st.files, filename, st.m[ns])]
    ELSE st

\* What a call leaves: the exception, the documents given, the files, and
\* the text of the documents the namespace was rendered to.
ns_outcome(e, st, r) ==
    [exc |-> e, desc |-> st.m.desc, src |-> st.m.src, files |-> st.files,
     ns_desc |-> IF r.ns_desc = "none" \/ e # "none" THEN PyNone ELSE Str(st.m[r.ns_desc]),
     ns_src |-> IF r.ns_src = "none" \/ e # "none" THEN PyNone ELSE Str(st.m[r.ns_src])]

\* SpecToRST.render_namespace. h holds the text of the documents given and
\* the files. add_include on ns_desc_doc = None raises AttributeError after
\* the description was rendered.
render_namespace(h, a) ==
    LET r == ns_refs(a)
    IN  IF wants_include(a) /\ r.ns_desc = "none"
        THEN ns_outcome("AttributeError",
                        [m |-> render_description(ns_store(h), r, a), files |-> h.files], r)
        ELSE ns_outcome(
                 "none",
                 save_file(
                     save_file(
                         [m |-> render_source(
                                    render_includes(
                                        render_description(ns_store(h), r, a), r, a), r, a),
                          files |-> h.files],
                         r.desc, r.ns_desc, S_namespace_description_inc, r, a),
                     r.src, r.ns_src, S_namespace_source_inc, r, a),
                 r)

N_core == <<"c", "o", "r", "e">>

T_full_name == <<"C", "o", "r", "e", " ", "t", "y", "p", "e", "s">>

T_doc == <<"A", "l", "l", " ", "t", "y", "p", "e", "s">>

T_version == <<"v", "2">>

T_date == <<"2", "0", "1", "9">>

T_ann == <<"a", "n", "n">>

T_bob == <<"b", "o", "b">>

T_source == <<"s", "o", "u", "r", "c", "e">>

T_core_yaml == <<"c", "o", "r", "e", ".", "y", "a", "m", "l">>

T_h_rst == <<"h", ".", "r", "s", "t">>

T_l_rst == <<"l", ".", "r", "s", "t">>

T_out == <<"o", "u", "t">>

T_a_out == <<"a", "/", "o", "u", "t">>

\* Namespaces: with the name alone, and with every key, the authors a list
\* and the contact one value.
NamespaceInputs ==
    {Namespace(Str(N_core), PyNone, PyNone, PyNone, PyNone, PyNone, PyNone, PyNone),
     Namespace(Str(N_core), Str(T_full_name), Str(T_doc), Str(T_version), Str(T_date),
               PyList(<<T_ann, T_bob>>), Str(T_ann),
               PyList(<<PyDict(<< <<T_source, T_core_yaml>> >>), Str(T_core_yaml)>>)),
     Namespace(Str(N_core), PyNone, Str(T_doc), PyNone, PyNone,
               Str(T_bob), PyList(<<T_ann>>), PyNone)}

\* Paths of the type hierarchy files, and None.
IncludePaths == {PyNone, Str(T_h_rst), Str(T_l_rst)}

FileDirs == {PyNone, Str(T_out), Str(T_a_out)}

\* Documents render_namespace is given: a new one, and one with text.
NamespaceDocs == {RSTDocument_init, T_a_b \o <<NL>>}

\* New documents for the descriptions and the sources, and no file yet.
NewNamespaceDocs ==
    /\ \E d \in NamespaceDocs, s \in NamespaceDocs : desc_doc' = d /\ src_doc' = s
    /\ files' = {}
    /\ exc' = "none"
    /\ last' = [op |-> "new_documents", arg |-> NoArg]
    /\ UNCHANGED <<cols, table, document>>
    /\ UNCHANGED walk

\* One call on each pair of documents.
RenderNamespace ==
    /\ last.op # "render_namespace"
    /\ desc_doc \in NamespaceDocs /\ src_doc \in NamespaceDocs /\ files = {}
    /\ \E ns \in NamespaceInputs, namespace_name \in {PyNone, Str(N_core)},
          desc_given, src_given, show_yaml_src, file_per_type \in BOOLEAN,
          file_dir \in FileDirs, html, latex \in IncludePaths :
         LET a == [ns |-> ns, namespace_name |-> namespace_name, default_namespace |-> N_core,
                   desc_given |-> desc_given, src_given |-> src_given,
                   show_yaml_src |-> show_yaml_src, file_dir |-> file_dir,
                   file_per_type |-> file_per_type, html |-> html, latex |-> latex,
                   yaml |-> T_a_b \o <<NL>>]
             r == render_namespace([desc |-> desc_doc, src |-> src_doc, files |-> files], a)
         IN  /\ desc_doc' = r.desc
             /\ src_doc' = r.src
             /\ files' = r.files
             /\ exc' = r.exc
             /\ last' = [op |-> "render_namespace",
                         arg |-> [a EXCEPT !.ns = subsec_heading(ns)],
                         before |-> [desc |-> desc_doc, src |-> src_doc],
                         ns_desc |-> r.ns_desc, ns_src |-> r.ns_src]
    /\ UNCHANGED <<cols, table, document>>
    /\ UNCHANGED walk

NextNs == NewNamespaceDocs \/ RenderNamespace

SpecNs == Init /\ [][NextNs]_vars

\* ------------------------------------------- what render_namespace renders

\* frag is a part of text that starts after position i.
At(text, i, frag) == i + Len(frag) <= Len(text) /\ SubSeq(text, i + 1, i + Len(frag)) = frag

Contains(text, frag) == \E i \in 0..Len(text) : At(text, i, frag)

\* In text, b comes somewhere after a.
Follows(text, a, b) ==
    \E i \in 0..Len(text) :
        At(text, i, a) /\ \E j \in (i + Len(a))..Len(text) : At(text, j, b)

\* What a document gained over the text it held before.
Added(doc, before) == SubSeq(doc, Len(before) + 1, Len(doc))

Extends(doc, before) == Len(before) <= Len(doc) /\ SubSeq(doc, 1, Len(before)) = before

\* A call of render_namespace has returned.
Rendered == last.op = "render_namespace" /\ exc = "none"

\* The include directive of a path, as the document writes it.
IncludeOf(path, indent) == add_include(RSTDocument_init, path, indent)

\* The block of one builder that includes a path.
OnlyBlock(only, path) == only \o <<NL, NL>> \o IncludeOf(path, Str(default_indent))

\* C18: render_namespace with type-hierarchy include paths: equal paths give
\* one unconditional include of that path in the description document;
\* different paths give an '.. only:: html' block that includes the html path
\* and an '.. only:: latex' block that includes the latex path, each block
\* there only if its path is not None.
C18_TypeHierarchyIncludes ==
    (Rendered /\ last.arg.desc_given) =>
        LET doc == last.ns_desc.s
            html == last.arg.html
            latex == last.arg.latex
        IN  /\ (html = latex /\ html.k # "none") =>
                   /\ Contains(doc, IncludeOf(html.s, PyNone))
                   /\ ~Contains(doc, S_only_html) /\ ~Contains(doc, S_only_latex)
            /\ (html # latex) =>
                   /\ Contains(doc, S_only_html) <=> html.k # "none"
                   /\ Contains(doc, S_only_latex) <=> latex.k # "none"
                   /\ html.k # "none" => Contains(doc, OnlyBlock(S_only_html, html.s))
                   /\ latex.k # "none" => Contains(doc, OnlyBlock(S_only_latex, latex.s))

\* The part of C18 about equal paths and about the html block.
C18_EqualAndHtmlIncludes ==
    (Rendered /\ last.arg.desc_given) =>
        LET doc == last.ns_desc.s
            html == last.arg.html
            latex == last.arg.latex
        IN  /\ (html = latex /\ html.k # "none") =>
                   /\ Contains(doc, IncludeOf(html.s, PyNone))
                   /\ ~Contains(doc, S_only_html) /\ ~Contains(doc, S_only_latex)
            /\ (html # latex) =>
                   /\ Contains(doc, S_only_html) <=> html.k # "none"
                   /\ Contains(doc, S_only_latex) <=> latex.k # "none"
                   /\ html.k # "none" => Contains(doc, OnlyBlock(S_only_html, html.s))

\* The link to the source of the namespace, and the link back.
SourceLink == S_source_specification \o get_numbered_reference(ns_src_label)

DescriptionLink == S_description_see \o get_numbered_reference(ns_desc_label)

\* render_namespace was given both documents and renders into them.
RenderedBoth(file_per_type) ==
    /\ Rendered /\ last.arg.desc_given /\ last.arg.src_given
    /\ last.arg.file_per_type = file_per_type

\* C19: render_namespace with desc_doc and src_doc and file_per_type=False:
\* the description document gets the '**Source Specification:** see
\* :numref:' link to the label of the source, the source document gets that
\* label followed by the '**Description:** see :numref:' link back; each
\* link is in the document opposite to the label it points to.
C19_CrossLinks ==
    RenderedBoth(FALSE) =>
        LET desc == Added(desc_doc, last.before.desc)
            src == Added(src_doc, last.before.src)
        IN  /\ Contains(desc, SourceLink)
            /\ ~Contains(src, SourceLink)
            /\ Follows(src, add_label(RSTDocument_init, ns_src_label), DescriptionLink)
            /\ ~Contains(desc, DescriptionLink)
            /\ Contains(desc, add_label(RSTDocument_init, ns_desc_label))

\* The part of C19 about the source document and the labels.
C19_BackLink ==
    RenderedBoth(FALSE) =>
        LET desc == Added(desc_doc, last.before.desc)
            src == Added(src_doc, last.before.src)
        IN  /\ Follows(src, add_label(RSTDocument_init, ns_src_label), DescriptionLink)
            /\ ~Contains(desc, DescriptionLink)
            /\ Contains(desc, add_label(RSTDocument_init, ns_desc_label))

\* The file of a name in the files written, as a set.
FileNamed(name) == {f \in files : f.name = name}

\* The file render_namespace writes for a namespace, and the path it
\* includes it by.
NsFile(file_dir, namespace, suffix) == file_dir \o <<"/">> \o namespace \o suffix

NsInclude(file_dir, namespace, suffix) == basename(file_dir) \o <<"/">> \o namespace \o suffix

RECURSIVE PreOrder(_, _)
\* The types of a hierarchy with their depth, each type before its subtypes
\* and the types of one level in the order of the dictionary.
PreOrder(h, depth) ==
    IF Len(h) = 0 THEN <<>>
    ELSE <<[k |-> Head(h).k, depth |-> depth]>> \o PreOrder(Head(h).v, depth + 1)
             \o PreOrder(Tail(h), depth)

\* The blanks a line starts with.
LeadingBlanks(l) ==
    IF \A i \in 1..Len(l) : l[i] = " " THEN Len(l)
    ELSE (CHOOSE i \in 1..Len(l) : l[i] # " " /\ \A j \in 1..(i - 1) : l[j] = " ") - 1

\* A line of a bullet list.
IsItemLine(l) ==
    LET b == LeadingBlanks(l)
    IN  Len(l) >= b + 2 /\ l[b + 1] = "*" /\ l[b + 2] = " "

\* The item of a type at a depth: the indent, the bullet and the reference
\* to the section of the type.
HierarchyItem(k, depth) ==
    Repeat(" ", 3 * depth) \o <<"*", " ", ":", "r", "e", "f", ":", BackQuote>> \o k
        \o <<" ", "<", "s", "e", "c", "-">> \o k \o <<">", BackQuote>>

\* C21: render_type_hierarchy writes one list item for each type of the
\* hierarchy, in pre-order, the item of a type at depth d indented by d
\* copies of the indent step and referring to 'sec-<type>'; it returns the
\* document and the hierarchy, the document a new one when target_doc is
\* None and the given one, appended to, otherwise.
C21_TypeHierarchyItems ==
    (Ended("render_type_hierarchy") /\ exc = "none") =>
        LET items == SelectSeq(Lines(Appended(last.arg.before, document)), IsItemLine)
            pre == PreOrder(last.arg.type_hierarchy, 0)
        IN  /\ Len(items) = Len(pre)
            /\ \A i \in 1..Len(pre) : items[i] = HierarchyItem(pre[i].k, pre[i].depth)
            /\ last.ret.target_doc = document
            /\ last.ret.type_hierarchy = last.arg.type_hierarchy
            /\ IF last.arg.target_doc = PyNone
               THEN last.ret.new_document /\ last.arg.before = RSTDocument_init
               ELSE /\ ~last.ret.new_document
                    /\ IsPrefix(last.arg.target_doc.s, document)
                    /\ Len(document) > Len(last.arg.target_doc.s)

\* render_type_hierarchy has returned from a hierarchy three levels deep,
\* rendered to a given document that held text.
C21_Witness ==
    /\ Ended("render_type_hierarchy") /\ exc = "none"
    /\ HierarchySize(last.arg.type_hierarchy) = 6
    /\ \E i \in 1..6 : PreOrder(last.arg.type_hierarchy, 0)[i].depth = 2
    /\ last.arg.target_doc # PyNone /\ Len(last.arg.target_doc.s) > 0

\* --------------------------------------- what sort_types_to_sections gives

\* The sections that hold a type.
SectionsOf(sections, nt) ==
    {i \in 1..Len(sections) :
        \E j \in 1..Len(sections[i].data_types) : sections[i].data_types[j] = nt}

\* The places a type has in one section.
PlacesIn(section, nt) == {j \in 1..Len(section.data_types) : section.data_types[j] = nt}

\* The sections are those of the source files, in their order, each with the
\* title of the namespace for the file or with the file's name; every
\* registered type is once in the section of its source file and in no other.
SectionsSortTypes ==
    LET a == last.arg
        sections == last.ret
    IN  /\ exc = "none"
        /\ Len(sections) = Len(a.source_files)
        /\ \A i \in 1..Len(sections) :
              /\ sections[i].file = a.source_files[i]
              /\ sections[i].title = IF a.descr[a.source_files[i]].title = PyNone
                                     THEN a.source_files[i]
                                     ELSE a.descr[a.source_files[i]].title.s
              /\ \A j \in 1..Len(sections[i].data_types) :
                    \E k \in 1..Len(a.registered_types) :
                        a.registered_types[k] = sections[i].data_types[j]
        /\ \A k \in 1..Len(a.registered_types) :
              LET nt == a.registered_types[k]
              IN  /\ Cardinality(SectionsOf(sections, nt)) = 1
                  /\ \A i \in SectionsOf(sections, nt) :
                        /\ sections[i].file = a.source_file[nt]
                        /\ Cardinality(PlacesIn(sections[i], nt)) = 1

\* C22: sort_types_to_sections makes one section for each source file of
\* the namespace, in the order of the source files, titled by the title the
\* namespace gives for the file or by the file's name, and places every
\* registered type of the catalog in exactly one section, that of the
\* source file that defines it.
C22_SectionsPartitionTypes ==
    last.op = "sort_types_to_sections" => SectionsSortTypes

\* C22 for the catalogs whose types are all defined in source files of the
\* namespace.
C22_TypesOfTheSourceFiles ==
    (last.op = "sort_types_to_sections"
        /\ \A k \in 1..Len(last.arg.registered_types) :
              \E i \in 1..Len(last.arg.source_files) :
                  last.arg.source_files[i] = last.arg.source_file[last.arg.registered_types[k]])
        => SectionsSortTypes

\* ------------------------------------------------------ what headings add

IsHeading ==
    last.op \in {"add_part", "add_chapter", "add_section", "add_subsection",
                 "add_subsubsection", "add_paragraph"}

\* The heading character of each kind of heading.
HeadingChar ==
    [add_part |-> "#", add_chapter |-> "*", add_section |-> "=", add_subsection |-> "-",
     add_subsubsection |-> "^", add_paragraph |-> "\""]

\* C23: each of add_part, add_chapter, add_section, add_subsection,
\* add_subsubsection and add_paragraph appends, for every title, a heading
\* line of len(title) copies of its heading character ('#', '*', '=', '-',
\* '^', '"', all distinct); part and chapter have the line above and below
\* the title, the others below only, and a blank line ends each heading.
C23_HeadingMarkup ==
    /\ Cardinality({HeadingChar[op] : op \in DOMAIN HeadingChar}) = 6
    /\ IsHeading =>
           LET title == last.arg.title
               line == [i \in 1..Len(title) |-> HeadingChar[last.op]]
               added == Appended(last.arg.before, document)
           IN  /\ exc = "none"
               /\ IsPrefix(last.arg.before, document)
               /\ IF last.op \in {"add_part", "add_chapter"}
                  THEN added = line \o <<NL>> \o title \o <<NL>> \o line \o <<NL, NL>>
                  ELSE added = title \o <<NL>> \o line \o <<NL, NL>>

\* A chapter heading with a title of two lines, added to a document that
\* held text.
C23_Witness ==
    /\ last.op = "add_chapter" /\ last.arg.title = T_a_b
    /\ Len(last.arg.before) > 0
    /\ Len(document) = Len(last.arg.before) + 13

\* ------------------------------------------- the order of the table's rows

\* The specs a spec holds.
Children(spec) ==
    LET kids == spec.attributes \o spec.datasets \o spec.links \o spec.groups
    IN  {kids[i] : i \in 1..Len(kids)}

\* The row of the call that made the call of row i: the last row before it
\* that is less deep.
ParentRow(rows, i) ==
    CHOOSE j \in 1..(i - 1) :
        /\ rows[j].depth < rows[i].depth
        /\ \A m \in (j + 1)..(i - 1) : rows[m].depth >= rows[i].depth

\* C24: render_spec_table fills the table in pre-order: the first row is the
\* given spec at the given depth, the row of a child comes after the row of
\* its parent, the Id of a row at depth d starts with exactly d copies of
\* depth_char, and each call adds one row for its spec, so that the table
\* has as many rows as specs were visited.
C24_RowsInPreOrder ==
    (Ended("render_spec_table") /\ exc = "none") =>
        /\ Len(spec_rows) = calls
        /\ spec_rows[1].spec = last.arg.spec /\ spec_rows[1].depth = 0
        /\ \A i \in 2..Len(spec_rows) :
              /\ \E j \in 1..(i - 1) : spec_rows[j].depth < spec_rows[i].depth
              /\ spec_rows[ParentRow(spec_rows, i)].depth = spec_rows[i].depth - 1
              /\ spec_rows[i].spec \in Children(spec_rows[ParentRow(spec_rows, i)].spec)
        /\ \A i \in 1..Len(spec_rows) :
              LET d == spec_rows[i].depth
                  id == spec_rows[i].name
              IN  /\ Len(id) > d
                  /\ \A c \in 1..d : id[c] = "."
                  /\ id[d + 1] # "."

\* render_spec_table has returned from the tree of nested subgroups, with
\* rows two levels below the first and rows of the first level after them.
C24_Witness ==
    /\ Ended("render_spec_table") /\ exc = "none"
    /\ last.arg.spec = G_deep /\ last.arg.recursive_subgroups
    /\ Len(spec_rows) >= 8
    /\ \E i, j \in 1..Len(spec_rows) :
          i < j /\ spec_rows[i].depth = 2 /\ spec_rows[j].depth = 1

====
